---------------------------- MODULE Spec2Model ----------------------------
(***************************************************************************)
(* A model of the Blackjack round engine of this repository:               *)
(*   - the hand valuation of src/blackjack.py (Hand.value),                 *)
(*     src/blackjack/deck.py (Hand.total) and src/blackjack/utils.py        *)
(*     (best_total);                                                        *)
(*   - the shoe and the round life-cycle of src/blackjack.py (Deck, Game);  *)
(*   - the chip ledger of src/player.py (Player).                           *)
(* Five specifications share the module: SpecHand (valuation as a pure     *)
(* function of a hand), Spec (Game.play_round, step by step), SpecPlayer    *)
(* (the ledger's calls), SpecDeck (a Deck of each class built and called    *)
(* directly) and SpecSettle (Game.settle on hands assembled card by card). *)
(***************************************************************************)
EXTENDS Integers, Sequences, FiniteSets, TLC

VARIABLES
    \* ---- hand valuation (SpecHand) ----
    h_ranks,        \* the ranks of the hand under valuation, in order
    h_value,        \* Hand.value() of src/blackjack.py on that hand
    h_total,        \* Hand.total of src/blackjack/deck.py on that hand
    h_best,         \* best_total(ranks) of src/blackjack/utils.py: <<total, is_soft>>
    h_blackjack,    \* <<Hand.is_blackjack() of src/blackjack.py,
                    \*   is_blackjack(ranks) of src/blackjack/utils.py>>
    h_bust,         \* <<Hand.is_bust() of src/blackjack.py,
                    \*   is_bust(ranks) of src/blackjack/utils.py>>
    \* ---- Game of src/blackjack.py (Spec) ----
    num_decks,      \* Deck.num_decks
    reshuffle_threshold, \* Deck.reshuffle_threshold
    draw_pile,      \* Deck._draw_pile, as card -> number of copies
    discard_pile,   \* Deck._discard_pile, as card -> number of copies
    player_hand,    \* Game.player.hand.cards
    dealer_hand,    \* Game.dealer.hand.cards
    pc,             \* where play_round stands
    interactive,    \* play_round's argument of the round in progress
    result,         \* the string settle() returned in this round ("" before)
    reshuffled,     \* whether a draw of this round refilled the draw pile from the discards
    \* ---- Player of src/player.py (SpecPlayer) ----
    chips_cents,    \* Player._chips_cents
    min_bet_cents,  \* Player.min_bet_cents
    max_bet_cents,  \* Player.max_bet_cents (None is modelled as 0)
    hands_played, wins, losses, pushes, net_cents,
    next_bet_id,    \* Player._next_bet_id
    active_bets,    \* Player._active_bets: bet id -> amount
    closed_bets,    \* history: the ids a settle_* or cancel_bet call has popped
    call,           \* the last call made on the Player and how it ended
    \* ---- a Deck driven directly by a caller (SpecDeck) ----
    deck_class,     \* which Deck the caller built: src/blackjack.py, src/deck.py
                    \* or src/blackjack/deck.py
    held,           \* the cards the caller has drawn and not discarded
    deck_raised,    \* the exception of the last call on the Deck ("" if none)
    deck_call       \* history: the last call made on the Deck and its argument

handVars   == <<h_ranks, h_value, h_total, h_best, h_blackjack, h_bust>>
gameVars   == <<num_decks, reshuffle_threshold, draw_pile, discard_pile,
                player_hand, dealer_hand, pc, interactive, result, reshuffled>>
ledgerVars == <<chips_cents, min_bet_cents, max_bet_cents, hands_played, wins,
                losses, pushes, net_cents, next_bet_id, active_bets,
                closed_bets, call>>
clientVars == <<deck_class, held, deck_raised, deck_call>>
vars       == <<handVars, gameVars, ledgerVars, clientVars>>

\* ------------------------------------------------------------------------
\* Cards and hand valuation
\* ------------------------------------------------------------------------

\* src/blackjack.py:7 and :8-22
SUITS == <<"Hearts", "Diamonds", "Clubs", "Spades">>
RANKS == <<"2", "3", "4", "5", "6", "7", "8", "9", "10", "J", "Q", "K", "A">>

RankSet == {RANKS[i] : i \in 1..Len(RANKS)}

\* int(rank) for the numeric ranks
IntOfRank(rank) ==
    CASE rank = "2" -> 2 [] rank = "3" -> 3 [] rank = "4" -> 4
      [] rank = "5" -> 5 [] rank = "6" -> 6 [] rank = "7" -> 7
      [] rank = "8" -> 8 [] rank = "9" -> 9 [] rank = "10" -> 10

rank_value(rank) ==
    IF rank \in {"J", "Q", "K"} THEN 10
    ELSE IF rank = "A" THEN 11
    ELSE IntOfRank(rank)

Card(rank, suit) == [rank |-> rank, suit |-> suit]

\* Card.value (src/blackjack.py) and Card.points (src/blackjack/deck.py)
CardValue(c) == rank_value(c.rank)

CardPoints(c) ==
    IF c.rank = "A" THEN 11
    ELSE IF c.rank \in {"K", "Q", "J"} THEN 10
    ELSE IntOfRank(c.rank)

RECURSIVE SumValues(_)
SumValues(cards) ==
    IF cards = <<>> THEN 0 ELSE CardValue(Head(cards)) + SumValues(Tail(cards))

RECURSIVE SumPoints(_)
SumPoints(cards) ==
    IF cards = <<>> THEN 0 ELSE CardPoints(Head(cards)) + SumPoints(Tail(cards))

RECURSIVE CountAces(_)
CountAces(cards) ==
    IF cards = <<>> THEN 0
    ELSE (IF Head(cards).rank = "A" THEN 1 ELSE 0) + CountAces(Tail(cards))

\* the loop `while total > 21 and aces > 0: total -= 10; aces -= 1`,
\* returning the final <<total, aces>>
RECURSIVE DemoteLoop(_, _)
DemoteLoop(total, aces) ==
    IF total > 21 /\ aces > 0 THEN DemoteLoop(total - 10, aces - 1)
    ELSE <<total, aces>>

\* a plausible slip: `if` instead of `while` (one ace demoted at most)
value_once(cards) ==
    LET total == SumValues(cards)
        aces  == CountAces(cards)
    IN  IF total > 21 /\ aces > 0 THEN total - 10 ELSE total

\* Hand.value, src/blackjack.py
value(cards) == DemoteLoop(SumValues(cards), CountAces(cards))[1]

\* Hand.total, src/blackjack/deck.py
total(cards) == DemoteLoop(SumPoints(cards), CountAces(cards))[1]

\* a plausible slip: any hand of 21 is a blackjack
is_blackjack_any_len(cards) == value(cards) = 21

\* a plausible slip: 21 itself is a bust
is_bust_from_21(cards) == value(cards) >= 21

\* Hand.is_blackjack and Hand.is_bust, src/blackjack.py
is_blackjack(cards) == Len(cards) = 2 /\ value(cards) = 21

is_bust(cards) == value(cards) > 21

\* RANK_VALUES and MAX_HAND_TOTAL, src/blackjack/constants.py
RANK_VALUES(rank) ==
    CASE rank = "2" -> 2 [] rank = "3" -> 3 [] rank = "4" -> 4
      [] rank = "5" -> 5 [] rank = "6" -> 6 [] rank = "7" -> 7
      [] rank = "8" -> 8 [] rank = "9" -> 9 [] rank = "10" -> 10
      [] rank = "J" -> 10 [] rank = "Q" -> 10 [] rank = "K" -> 10
      [] rank = "A" -> 11

MAX_HAND_TOTAL == 21

\* rank_to_value, src/blackjack/utils.py, on rank strings
rank_to_value(rank) == RANK_VALUES(rank)

\* the first loop of best_total: <<total, aces_as_eleven>>
RECURSIVE TallyRanks(_)
TallyRanks(ranks) ==
    IF ranks = <<>> THEN <<0, 0>>
    ELSE LET v    == rank_to_value(Head(ranks))
             rest == TallyRanks(Tail(ranks))
         IN  <<v + rest[1], (IF v = 11 THEN 1 ELSE 0) + rest[2]>>

RECURSIVE BestDemote(_, _)
BestDemote(t, aces_as_eleven) ==
    IF t > MAX_HAND_TOTAL /\ aces_as_eleven > 0
    THEN BestDemote(t - 10, aces_as_eleven - 1)
    ELSE <<t, aces_as_eleven>>

\* a plausible slip: soft as soon as the hand holds an ace, demoted or not
best_total_soft_if_ace(ranks) ==
    LET tally == TallyRanks(ranks)
        fin   == BestDemote(tally[1], tally[2])
    IN  <<fin[1], tally[2] > 0>>

\* best_total, src/blackjack/utils.py: <<total, is_soft>>
best_total(ranks) ==
    LET tally == TallyRanks(ranks)
        fin   == BestDemote(tally[1], tally[2])
    IN  <<fin[1], fin[2] > 0>>

\* is_blackjack and is_bust, src/blackjack/utils.py
utils_is_blackjack(ranks) ==
    IF Len(ranks) # 2 THEN FALSE
    ELSE best_total(ranks)[1] = MAX_HAND_TOTAL

utils_is_bust(ranks) == best_total(ranks)[1] > MAX_HAND_TOTAL

\* ------------------------------------------------------------------------
\* SpecHand: the valuation applied to every hand of at most MaxHandLen cards
\* ------------------------------------------------------------------------

MaxHandLen == 4

HandOf(ranks) == [i \in 1..Len(ranks) |-> Card(ranks[i], SUITS[1])]

HandIdle ==
    /\ h_ranks = <<>>
    /\ h_value = 0
    /\ h_total = 0
    /\ h_best = <<0, FALSE>>
    /\ h_blackjack = <<FALSE, FALSE>>
    /\ h_bust = <<FALSE, FALSE>>

\* Hand() followed by value(), total, best_total, is_blackjack and is_bust
\* on the empty hand
HandInit ==
    /\ h_ranks = <<>>
    /\ h_value = value(HandOf(<<>>))
    /\ h_total = total(HandOf(<<>>))
    /\ h_best = best_total(<<>>)
    /\ h_blackjack = <<is_blackjack(HandOf(<<>>)), utils_is_blackjack(<<>>)>>
    /\ h_bust = <<is_bust(HandOf(<<>>)), utils_is_bust(<<>>)>>

\* Hand.add_card(card), then the valuations and tests of the new hand
HandAddCard(r) ==
    /\ Len(h_ranks) < MaxHandLen
    /\ h_ranks' = Append(h_ranks, r)
    /\ h_value' = value(HandOf(h_ranks'))
    /\ h_total' = total(HandOf(h_ranks'))
    /\ h_best' = best_total(h_ranks')
    /\ h_blackjack' = <<is_blackjack(HandOf(h_ranks')), utils_is_blackjack(h_ranks')>>
    /\ h_bust' = <<is_bust(HandOf(h_ranks')), utils_is_bust(h_ranks')>>
    /\ UNCHANGED <<gameVars, ledgerVars, clientVars>>

HandNext == \E r \in RankSet : HandAddCard(r)

\* ------------------------------------------------------------------------
\* Deck of src/blackjack.py
\* ------------------------------------------------------------------------

\* The shoe TLC explores is built, as _build_shoe builds it, from num_decks
\* copies of every suit x rank pair, over ShoeSuits and ShoeRanks, sub-tuples
\* of SUITS and RANKS that keep the ace, a ten-valued rank and two low
\* ranks (hard and soft totals on both sides of 16, 17 and 21 occur).
\* DeckSize stands for the 52 of a full deck.  A shoe holds at least
\* MinDecks decks so that, like the 52-card deck, it outlasts a round.
MinDecks == 2
MaxDecks == 2
ShoeSuits == <<"Hearts">>
ShoeRanks == <<"5", "6", "K", "A">>
Thresholds == {1, 5, 15}

ShoeSuitSet == {ShoeSuits[i] : i \in 1..Len(ShoeSuits)}
ShoeRankSet == {ShoeRanks[i] : i \in 1..Len(ShoeRanks)}
CardSet == {Card(r, s) : r \in ShoeRankSet, s \in ShoeSuitSet}
DeckSize == Cardinality(CardSet)

\* A pile is held as card -> number of copies.  Every card enters the draw
\* pile through random.shuffle (_shuffle_draw_pile), whose outcome is any
\* permutation: the order is resolved when a card is popped, so pop() may
\* return any card of the pile.
EmptyPile == [c \in CardSet |-> 0]

RECURSIVE SumOver(_, _)
SumOver(p, S) ==
    IF S = {} THEN 0
    ELSE LET c == CHOOSE x \in S : TRUE IN p[c] + SumOver(p, S \ {c})

PileSize(p) == SumOver(p, CardSet)

PileUnion(p, q) == [c \in CardSet |-> p[c] + q[c]]

RECURSIVE PileOfSeq(_)
PileOfSeq(cards) ==
    IF cards = <<>> THEN EmptyPile
    ELSE [PileOfSeq(Tail(cards)) EXCEPT ![Head(cards)] = @ + 1]

\* the inner loop `for rank in RANKS: append(Card(rank, suit))`
OneSuit(suit, ranks) == [i \in 1..Len(ranks) |-> Card(ranks[i], suit)]

\* the loop `for suit in SUITS` around it
RECURSIVE OneDeck(_, _)
OneDeck(suits, ranks) ==
    IF suits = <<>> THEN <<>>
    ELSE OneSuit(Head(suits), ranks) \o OneDeck(Tail(suits), ranks)

\* a plausible slip: the loop over the decks is forgotten
_build_one_deck(n, suits, ranks) == OneDeck(suits, ranks)

\* the list Deck._build_shoe appends to, over the suits and ranks given:
\* `for _ in range(num_decks)` around the two loops
RECURSIVE _build_shoe_list(_, _, _)
_build_shoe_list(n, suits, ranks) ==
    IF n <= 0 THEN <<>>
    ELSE OneDeck(suits, ranks) \o _build_shoe_list(n - 1, suits, ranks)

\* Deck.SUITS and Deck.RANKS of src/deck.py, and its _build_standard_shoe
\* with the default card factory
Deck_SUITS == <<"S", "H", "D", "C">>
Deck_RANKS == <<"A", "2", "3", "4", "5", "6", "7", "8", "9", "10", "J", "Q", "K">>

_build_standard_shoe(n) == _build_shoe_list(n, Deck_SUITS, Deck_RANKS)

\* Deck._build_shoe followed by _shuffle_draw_pile, on the shoe explored
_build_shoe(n) == PileOfSeq(_build_shoe_list(n, ShoeSuits, ShoeRanks))

\* Deck.cards_remaining, Deck.discard_pile_size
cards_remaining(dp) == PileSize(dp)

discard_pile_size(disc) == PileSize(disc)

\* a plausible slip: the discards replace the draw pile instead of extending it
_reshuffle_replacing(dp, disc) ==
    IF discard_pile_size(disc) = 0 THEN <<dp, disc>> ELSE <<disc, EmptyPile>>

\* Deck._reshuffle_from_discards: <<draw pile, discard pile>> afterwards
_reshuffle_from_discards(dp, disc) ==
    IF discard_pile_size(disc) = 0 THEN <<dp, disc>>
    ELSE <<PileUnion(dp, disc), EmptyPile>>

\* a plausible slip: the discards come back only once the draw pile is empty
reshuffle_if_empty(dp, disc, threshold) ==
    IF cards_remaining(dp) = 0 THEN _reshuffle_from_discards(dp, disc)
    ELSE <<dp, disc>>

\* Deck.reshuffle_if_needed
reshuffle_if_needed(dp, disc, threshold) ==
    IF cards_remaining(dp) < threshold THEN _reshuffle_from_discards(dp, disc)
    ELSE <<dp, disc>>

\* Deck.discard(cards)
discard(disc, cards) == PileUnion(disc, PileOfSeq(cards))

\* a plausible slip: draw does not fall back on the discards
BeforePopNoRefill == <<draw_pile, discard_pile>>

\* Deck.draw(1): the piles once the empty draw pile has been refilled
BeforePop ==
    IF cards_remaining(draw_pile) = 0
    THEN _reshuffle_from_discards(draw_pile, discard_pile)
    ELSE <<draw_pile, discard_pile>>

\* Deck.draw(1) raises RuntimeError
DrawFails == cards_remaining(BeforePop[1]) = 0

\* Deck.draw(1) returns card c
DeckDraw(c) ==
    /\ BeforePop[1][c] > 0
    /\ draw_pile' = [BeforePop[1] EXCEPT ![c] = @ - 1]
    /\ discard_pile' = BeforePop[2]
    /\ reshuffled' = (reshuffled \/ BeforePop[2] # discard_pile)

\* the RuntimeError leaves play_round: nothing is cleaned up
Fatal ==
    /\ pc' = "fatal"
    /\ UNCHANGED <<draw_pile, discard_pile, player_hand, dealer_hand, reshuffled>>

\* ------------------------------------------------------------------------
\* Game of src/blackjack.py
\* ------------------------------------------------------------------------

\* a plausible slip: a tie goes to the player
settle_tie_to_player(ph, dh) ==
    IF is_bust(ph) THEN "Dealer wins (player busts)"
    ELSE IF is_bust(dh) THEN "Player wins (dealer busts)"
    ELSE IF value(ph) >= value(dh) THEN "Player wins"
    ELSE "Dealer wins"

\* a plausible slip: the dealer's bust is tested before the player's
settle_dealer_bust_first(ph, dh) ==
    IF is_bust(dh) THEN "Player wins (dealer busts)"
    ELSE IF is_bust(ph) THEN "Dealer wins (player busts)"
    ELSE IF value(ph) > value(dh) THEN "Player wins"
    ELSE IF value(dh) > value(ph) THEN "Dealer wins"
    ELSE "Push"

\* Game.settle
settle(ph, dh) ==
    LET p_val == value(ph)
        d_val == value(dh)
    IN  IF is_bust(ph) THEN "Dealer wins (player busts)"
        ELSE IF is_bust(dh) THEN "Player wins (dealer busts)"
        ELSE IF p_val > d_val THEN "Player wins"
        ELSE IF d_val > p_val THEN "Dealer wins"
        ELSE "Push"

\* a plausible slip: the dealer plays after a player bust as well
AfterPlayerToDealer(ph) == "dealer"

\* a plausible slip: a player bust ends the round without a result
AfterPlayerSkipsSettle(ph) == IF ~is_bust(ph) THEN "dealer" ELSE "cleanup"

\* play_round after the player's turn: `if not self.player.hand.is_bust()`
AfterPlayer(ph) == IF ~is_bust(ph) THEN "dealer" ELSE "settle"

\* play_round after deal_initial: `if not self.player.hand.is_blackjack()`
AfterDeal(ph) == IF ~is_blackjack(ph) THEN "player" ELSE AfterPlayer(ph)

GameIdle ==
    /\ num_decks = MinDecks
    /\ reshuffle_threshold = 15
    /\ draw_pile = EmptyPile
    /\ discard_pile = EmptyPile
    /\ player_hand = <<>>
    /\ dealer_hand = <<>>
    /\ pc = "off"
    /\ interactive = TRUE
    /\ result = ""
    /\ reshuffled = FALSE

\* Game(num_decks, reshuffle_threshold)
GameInit ==
    /\ num_decks \in MinDecks..MaxDecks
    /\ reshuffle_threshold \in Thresholds
    /\ draw_pile = _build_shoe(num_decks)
    /\ discard_pile = EmptyPile
    /\ player_hand = <<>>
    /\ dealer_hand = <<>>
    /\ pc = "idle"
    /\ interactive = TRUE
    /\ result = ""
    /\ reshuffled = FALSE

\* play_round(interactive=inter) up to deal_initial: the reshuffle check
PlayRoundBegin(inter) ==
    /\ pc = "idle"
    /\ LET r == reshuffle_if_needed(draw_pile, discard_pile, reshuffle_threshold)
       IN  /\ draw_pile' = r[1]
           /\ discard_pile' = r[2]
    /\ interactive' = inter
    /\ result' = ""
    /\ reshuffled' = FALSE
    /\ pc' = "deal"
    /\ UNCHANGED <<num_decks, reshuffle_threshold, player_hand, dealer_hand>>
    /\ UNCHANGED <<handVars, ledgerVars, clientVars>>

\* a plausible slip: the dealer is served first
DealInitialDealerFirst ==
    /\ pc = "deal"
    /\ IF DrawFails THEN Fatal
       ELSE \E c \in CardSet :
              /\ DeckDraw(c)
              /\ IF Len(player_hand) = Len(dealer_hand)
                 THEN /\ dealer_hand' = Append(dealer_hand, c)
                      /\ UNCHANGED player_hand
                 ELSE /\ player_hand' = Append(player_hand, c)
                      /\ UNCHANGED dealer_hand
              /\ pc' = IF Len(player_hand') = 2 THEN AfterDeal(player_hand')
                       ELSE "deal"
    /\ UNCHANGED <<num_decks, reshuffle_threshold, interactive, result>>
    /\ UNCHANGED <<handVars, ledgerVars, clientVars>>

\* one pass of the body of deal_initial's loop is two draws: player, dealer
DealInitial ==
    /\ pc = "deal"
    /\ IF DrawFails THEN Fatal
       ELSE \E c \in CardSet :
              /\ DeckDraw(c)
              /\ IF Len(player_hand) = Len(dealer_hand)
                 THEN /\ player_hand' = Append(player_hand, c)
                      /\ UNCHANGED dealer_hand
                 ELSE /\ dealer_hand' = Append(dealer_hand, c)
                      /\ UNCHANGED player_hand
              /\ pc' = IF Len(dealer_hand') = 2 THEN AfterDeal(player_hand')
                       ELSE "deal"
    /\ UNCHANGED <<num_decks, reshuffle_threshold, interactive, result>>
    /\ UNCHANGED <<handVars, ledgerVars, clientVars>>

\* player_turn(interactive=True): the input is (h)it
PlayerHit ==
    /\ pc = "player"
    /\ interactive
    /\ IF DrawFails THEN Fatal
       ELSE \E c \in CardSet :
              /\ DeckDraw(c)
              /\ player_hand' = Append(player_hand, c)
              /\ pc' = IF is_bust(player_hand') THEN AfterPlayer(player_hand')
                       ELSE "player"
              /\ UNCHANGED dealer_hand
    /\ UNCHANGED <<num_decks, reshuffle_threshold, interactive, result>>
    /\ UNCHANGED <<handVars, ledgerVars, clientVars>>

\* player_turn(interactive=True): the input is (s)tand
PlayerStand ==
    /\ pc = "player"
    /\ interactive
    /\ pc' = AfterPlayer(player_hand)
    /\ UNCHANGED <<num_decks, reshuffle_threshold, draw_pile, discard_pile,
                   player_hand, dealer_hand, interactive, result, reshuffled>>
    /\ UNCHANGED <<handVars, ledgerVars, clientVars>>

\* a plausible slip: the card drawn is not added to the hand
PlayerAutoHitDropsCard ==
    /\ pc = "player"
    /\ ~interactive
    /\ value(player_hand) < 16
    /\ IF DrawFails THEN Fatal
       ELSE \E c \in CardSet :
              /\ DeckDraw(c)
              /\ pc' = "player"
              /\ UNCHANGED <<player_hand, dealer_hand>>
    /\ UNCHANGED <<num_decks, reshuffle_threshold, interactive, result>>
    /\ UNCHANGED <<handVars, ledgerVars, clientVars>>

\* player_turn(interactive=False): `while value() < 16`, one hit
PlayerAutoHit ==
    /\ pc = "player"
    /\ ~interactive
    /\ value(player_hand) < 16
    /\ IF DrawFails THEN Fatal
       ELSE \E c \in CardSet :
              /\ DeckDraw(c)
              /\ player_hand' = Append(player_hand, c)
              /\ pc' = IF is_bust(player_hand') THEN AfterPlayer(player_hand')
                       ELSE "player"
              /\ UNCHANGED dealer_hand
    /\ UNCHANGED <<num_decks, reshuffle_threshold, interactive, result>>
    /\ UNCHANGED <<handVars, ledgerVars, clientVars>>

\* player_turn(interactive=False): the loop condition fails
PlayerAutoReturn ==
    /\ pc = "player"
    /\ ~interactive
    /\ ~(value(player_hand) < 16)
    /\ pc' = AfterPlayer(player_hand)
    /\ UNCHANGED <<num_decks, reshuffle_threshold, draw_pile, discard_pile,
                   player_hand, dealer_hand, interactive, result, reshuffled>>
    /\ UNCHANGED <<handVars, ledgerVars, clientVars>>

\* a plausible slip: the dealer hits on 17 as well
DealerMustHit17(dh) == value(dh) < 18

\* dealer_turn's loop condition
DealerMustHit(dh) == value(dh) < 17

\* dealer_turn: one pass of the loop
DealerDraw ==
    /\ pc = "dealer"
    /\ DealerMustHit(dealer_hand)
    /\ IF DrawFails THEN Fatal
       ELSE \E c \in CardSet :
              /\ DeckDraw(c)
              /\ dealer_hand' = Append(dealer_hand, c)
              /\ pc' = IF is_bust(dealer_hand') THEN "settle" ELSE "dealer"
              /\ UNCHANGED player_hand
    /\ UNCHANGED <<num_decks, reshuffle_threshold, interactive, result>>
    /\ UNCHANGED <<handVars, ledgerVars, clientVars>>

\* dealer_turn returns: the loop condition fails
DealerStand ==
    /\ pc = "dealer"
    /\ ~DealerMustHit(dealer_hand)
    /\ pc' = "settle"
    /\ UNCHANGED <<num_decks, reshuffle_threshold, draw_pile, discard_pile,
                   player_hand, dealer_hand, interactive, result, reshuffled>>
    /\ UNCHANGED <<handVars, ledgerVars, clientVars>>

\* result = self.settle()
Settle ==
    /\ pc = "settle"
    /\ result' = settle(player_hand, dealer_hand)
    /\ pc' = "cleanup"
    /\ UNCHANGED <<num_decks, reshuffle_threshold, draw_pile, discard_pile,
                   player_hand, dealer_hand, interactive, reshuffled>>
    /\ UNCHANGED <<handVars, ledgerVars, clientVars>>

\* a plausible slip: the dealer's cards are discarded but the hand is not cleared
CleanupRoundKeepsDealerHand ==
    /\ pc = "cleanup"
    /\ LET player_discards == player_hand
           dealer_discards == dealer_hand
           disc == discard(discard(discard_pile, player_discards), dealer_discards)
           r == reshuffle_if_needed(draw_pile, disc, reshuffle_threshold)
       IN  /\ draw_pile' = r[1]
           /\ discard_pile' = r[2]
    /\ player_hand' = <<>>
    /\ dealer_hand' = dealer_hand
    /\ pc' = "idle"
    /\ UNCHANGED <<num_decks, reshuffle_threshold, interactive, result, reshuffled>>
    /\ UNCHANGED <<handVars, ledgerVars, clientVars>>

\* cleanup_round, and play_round returns result
CleanupRound ==
    /\ pc = "cleanup"
    /\ LET player_discards == player_hand
           dealer_discards == dealer_hand
           disc == discard(discard(discard_pile, player_discards), dealer_discards)
           r == reshuffle_if_needed(draw_pile, disc, reshuffle_threshold)
       IN  /\ draw_pile' = r[1]
           /\ discard_pile' = r[2]
    /\ player_hand' = <<>>
    /\ dealer_hand' = <<>>
    /\ pc' = "idle"
    /\ UNCHANGED <<num_decks, reshuffle_threshold, interactive, result, reshuffled>>
    /\ UNCHANGED <<handVars, ledgerVars, clientVars>>

GameNext ==
    \/ \E inter \in BOOLEAN : PlayRoundBegin(inter)
    \/ DealInitial
    \/ PlayerHit
    \/ PlayerStand
    \/ PlayerAutoHit
    \/ PlayerAutoReturn
    \/ DealerDraw
    \/ DealerStand
    \/ Settle
    \/ CleanupRound

\* ------------------------------------------------------------------------
\* Player of src/player.py: the chip ledger
\* ------------------------------------------------------------------------

\* The calls TLC makes: amounts of Amounts cents (non-positive, odd, even),
\* bet ids in 0..MaxBets (0 is never issued), at most MaxBets bets placed,
\* deposits up to a balance of MaxChips, a Player constructed with at most
\* MaxChips cents and a table maximum of MaxBetChoices.
MaxBets == 2
MaxChips == 2

\* max_bet_cents = None
None == 0

MaxBetChoices == {None, 1, 2}

Amounts == {-1, 0, 1, 2}

BetIds == 0..MaxBets

\* the payout_ratio arguments tried: Fraction(num, den), a float equal to
\* num/den, or an int (neither float nor Fraction)
Ratio(kind, num, den) == [kind |-> kind, num |-> num, den |-> den]

PayoutRatios ==
    { Ratio("Fraction", 1, 1), Ratio("Fraction", -2, 1), Ratio("float", 3, 2),
      Ratio("int", 1, 1) }

\* Player.__post_init__ accepts the arguments
ValidPlayer(chips, min_bet, max_bet) ==
    /\ chips >= 0
    /\ min_bet > 0
    /\ max_bet # None => (max_bet > 0 /\ max_bet >= min_bet)

Called(op, arg, raised, ret, before) ==
    [op |-> op, arg |-> arg, raised |-> raised, ret |-> ret, before |-> before]

LedgerIdle ==
    /\ chips_cents = 0
    /\ min_bet_cents = 1
    /\ max_bet_cents = None
    /\ hands_played = 0
    /\ wins = 0
    /\ losses = 0
    /\ pushes = 0
    /\ net_cents = 0
    /\ next_bet_id = 1
    /\ active_bets = <<>>
    /\ closed_bets = {}
    /\ call = Called("init", 0, "", 0, 0)

\* Player(name, chips, min_bet_cents, max_bet_cents)
LedgerInit ==
    /\ chips_cents \in 0..MaxChips
    /\ min_bet_cents \in 1..2
    /\ max_bet_cents \in MaxBetChoices
    /\ ValidPlayer(chips_cents, min_bet_cents, max_bet_cents)
    /\ hands_played = 0
    /\ wins = 0
    /\ losses = 0
    /\ pushes = 0
    /\ net_cents = 0
    /\ next_bet_id = 1
    /\ active_bets = <<>>
    /\ closed_bets = {}
    /\ call = Called("init", 0, "", 0, chips_cents)

configVars == <<min_bet_cents, max_bet_cents>>
statVars == <<hands_played, wins, losses, pushes, net_cents>>
betVars == <<next_bet_id, active_bets, closed_bets>>

\* the call raised before changing anything
Raises(op, arg, err) ==
    /\ call' = Called(op, arg, err, 0, chips_cents)
    /\ UNCHANGED <<chips_cents, configVars, statVars, betVars>>

\* deposit_cents(amount_cents)
DepositCents(amount_cents) ==
    /\ chips_cents + amount_cents <= MaxChips
    /\ IF amount_cents <= 0
       THEN Raises("deposit_cents", amount_cents, "ValueError")
       ELSE /\ chips_cents' = chips_cents + amount_cents
            /\ call' = Called("deposit_cents", amount_cents, "", 0, chips_cents)
            /\ UNCHANGED <<configVars, statVars, betVars>>
    /\ UNCHANGED <<handVars, gameVars, clientVars>>

\* withdraw_cents(amount_cents)
WithdrawCents(amount_cents) ==
    /\ IF amount_cents <= 0
       THEN Raises("withdraw_cents", amount_cents, "ValueError")
       ELSE IF amount_cents > chips_cents
       THEN Raises("withdraw_cents", amount_cents, "ValueError")
       ELSE /\ chips_cents' = chips_cents - amount_cents
            /\ call' = Called("withdraw_cents", amount_cents, "", 0, chips_cents)
            /\ UNCHANGED <<configVars, statVars, betVars>>
    /\ UNCHANGED <<handVars, gameVars, clientVars>>

\* a plausible slip: the table maximum is not checked
_validate_no_max(amount_cents, chips, min_bet, max_bet) ==
    ~ \/ amount_cents <= 0
      \/ amount_cents < min_bet
      \/ amount_cents > chips

\* _validate_bet_amount returns (TRUE) or raises ValueError (FALSE)
_validate_bet_amount(amount_cents, chips, min_bet, max_bet) ==
    ~ \/ amount_cents <= 0
      \/ amount_cents < min_bet
      \/ (max_bet # None /\ amount_cents > max_bet)
      \/ amount_cents > chips

\* can_bet(amount_cents)
can_bet(amount_cents) ==
    _validate_bet_amount(amount_cents, chips_cents, min_bet_cents, max_bet_cents)

\* a plausible slip: the bet is recorded but the chips are not debited
PlaceBetNoDebit(amount_cents) ==
    /\ next_bet_id <= MaxBets
    /\ IF ~_validate_bet_amount(amount_cents, chips_cents, min_bet_cents,
                                max_bet_cents)
       THEN Raises("place_bet", amount_cents, "ValueError")
       ELSE LET bet_id == next_bet_id
            IN  /\ chips_cents' = chips_cents
                /\ next_bet_id' = next_bet_id + 1
                /\ active_bets' = [i \in DOMAIN active_bets \cup {bet_id} |->
                                     IF i = bet_id THEN amount_cents
                                     ELSE active_bets[i]]
                /\ call' = Called("place_bet", amount_cents, "", bet_id, chips_cents)
                /\ UNCHANGED <<configVars, statVars, closed_bets>>
    /\ UNCHANGED <<handVars, gameVars, clientVars>>

\* place_bet(amount_cents)
PlaceBet(amount_cents) ==
    /\ next_bet_id <= MaxBets
    /\ IF ~_validate_bet_amount(amount_cents, chips_cents, min_bet_cents,
                                max_bet_cents)
       THEN Raises("place_bet", amount_cents, "ValueError")
       ELSE LET bet_id == next_bet_id
            IN  /\ chips_cents' = chips_cents - amount_cents
                /\ next_bet_id' = next_bet_id + 1
                /\ active_bets' = [i \in DOMAIN active_bets \cup {bet_id} |->
                                     IF i = bet_id THEN amount_cents
                                     ELSE active_bets[i]]
                /\ call' = Called("place_bet", amount_cents, "", bet_id, chips_cents)
                /\ UNCHANGED <<configVars, statVars, closed_bets>>
    /\ UNCHANGED <<handVars, gameVars, clientVars>>

\* a plausible slip: the bet is read (dict.get) but stays in _active_bets
_peek_bet(bets, bet_id) ==
    IF bet_id \in DOMAIN bets
    THEN [found |-> TRUE, bet |-> bets[bet_id], rest |-> bets]
    ELSE [found |-> FALSE, bet |-> 0, rest |-> bets]

\* _pop_bet(bet_id): the bet and the remaining bets, or KeyError (not found)
_pop_bet(bets, bet_id) ==
    IF bet_id \in DOMAIN bets
    THEN [found |-> TRUE, bet |-> bets[bet_id],
          rest |-> [i \in DOMAIN bets \ {bet_id} |-> bets[i]]]
    ELSE [found |-> FALSE, bet |-> 0, rest |-> bets]

\* a plausible slip: cancel_bet removes the bet but keeps the stake
CancelBetKeepsStake(bet_id) ==
    /\ LET popped == _pop_bet(active_bets, bet_id)
       IN  IF ~popped.found
           THEN Raises("cancel_bet", bet_id, "KeyError")
           ELSE /\ active_bets' = popped.rest
                /\ closed_bets' = closed_bets \cup {bet_id}
                /\ call' = Called("cancel_bet", bet_id, "", popped.bet, chips_cents)
                /\ UNCHANGED <<chips_cents, configVars, statVars, next_bet_id>>
    /\ UNCHANGED <<handVars, gameVars, clientVars>>

\* cancel_bet(bet_id)
CancelBet(bet_id) ==
    /\ LET popped == _pop_bet(active_bets, bet_id)
       IN  IF ~popped.found
           THEN Raises("cancel_bet", bet_id, "KeyError")
           ELSE /\ active_bets' = popped.rest
                /\ closed_bets' = closed_bets \cup {bet_id}
                /\ chips_cents' = chips_cents + popped.bet
                /\ call' = Called("cancel_bet", bet_id, "", popped.bet, chips_cents)
                /\ UNCHANGED <<configVars, statVars, next_bet_id>>
    /\ UNCHANGED <<handVars, gameVars, clientVars>>

\* _to_fraction(value): the fraction, or TypeError
_to_fraction(v) ==
    IF v.kind = "Fraction" THEN [ok |-> TRUE, numerator |-> v.num, denominator |-> v.den]
    ELSE IF v.kind = "float"
    THEN IF v.num = 3 /\ v.den = 2 THEN [ok |-> TRUE, numerator |-> 3, denominator |-> 2]
         ELSE IF v.num = 1 /\ v.den = 1 THEN [ok |-> TRUE, numerator |-> 1, denominator |-> 1]
         ELSE IF v.num = 2 /\ v.den = 1 THEN [ok |-> TRUE, numerator |-> 2, denominator |-> 1]
         \* limit_denominator(100) of a float that is num/den exactly, den <= 100
         ELSE [ok |-> TRUE, numerator |-> v.num, denominator |-> v.den]
    ELSE [ok |-> FALSE, numerator |-> 0, denominator |-> 1]

\* a plausible slip: the ratio is truncated before it multiplies the bet
PayoutTruncatedRatio(bet, ratio) == bet * (ratio.numerator \div ratio.denominator)

\* payout = (bet * ratio.numerator) // ratio.denominator
Payout(bet, ratio) == (bet * ratio.numerator) \div ratio.denominator

\* the body of settle_win(bet_id, payout_ratio), called as `op`
SettleWinAs(op, bet_id, payout_ratio) ==
    LET popped == _pop_bet(active_bets, bet_id)
        ratio  == _to_fraction(payout_ratio)
        payout == Payout(popped.bet, ratio)
        credit == popped.bet + payout
    IN  IF ~popped.found
        THEN Raises(op, bet_id, "KeyError")
        ELSE IF ~ratio.ok
        THEN \* the bet is popped already when _to_fraction raises
             /\ active_bets' = popped.rest
             /\ closed_bets' = closed_bets \cup {bet_id}
             /\ call' = Called(op, bet_id, "TypeError", 0, chips_cents)
             /\ UNCHANGED <<chips_cents, configVars, statVars, next_bet_id>>
        ELSE /\ active_bets' = popped.rest
             /\ closed_bets' = closed_bets \cup {bet_id}
             /\ chips_cents' = chips_cents + credit
             /\ hands_played' = hands_played + 1
             /\ wins' = wins + 1
             /\ net_cents' = net_cents + payout
             /\ call' = Called(op, bet_id, "", credit, chips_cents)
             /\ UNCHANGED <<configVars, losses, pushes, next_bet_id>>

\* the default of settle_win's payout_ratio: Fraction(1, 1)
DefaultPayoutRatio == Ratio("Fraction", 1, 1)

\* settle_win(bet_id, payout_ratio)
SettleWin(bet_id, payout_ratio) ==
    /\ SettleWinAs("settle_win", bet_id, payout_ratio)
    /\ UNCHANGED <<handVars, gameVars, clientVars>>

\* settle_blackjack(bet_id)
SettleBlackjack(bet_id) ==
    /\ SettleWinAs("settle_blackjack", bet_id, Ratio("Fraction", 3, 2))
    /\ UNCHANGED <<handVars, gameVars, clientVars>>

\* a plausible slip: a push counts the hand but does not return the bet
SettlePushForfeits(bet_id) ==
    /\ LET popped == _pop_bet(active_bets, bet_id)
       IN  IF ~popped.found
           THEN Raises("settle_push", bet_id, "KeyError")
           ELSE /\ active_bets' = popped.rest
                /\ closed_bets' = closed_bets \cup {bet_id}
                /\ hands_played' = hands_played + 1
                /\ pushes' = pushes + 1
                /\ call' = Called("settle_push", bet_id, "", 0, chips_cents)
                /\ UNCHANGED <<chips_cents, configVars, wins, losses, net_cents,
                               next_bet_id>>
    /\ UNCHANGED <<handVars, gameVars, clientVars>>

\* settle_push(bet_id)
SettlePush(bet_id) ==
    /\ LET popped == _pop_bet(active_bets, bet_id)
       IN  IF ~popped.found
           THEN Raises("settle_push", bet_id, "KeyError")
           ELSE /\ active_bets' = popped.rest
                /\ closed_bets' = closed_bets \cup {bet_id}
                /\ chips_cents' = chips_cents + popped.bet
                /\ hands_played' = hands_played + 1
                /\ pushes' = pushes + 1
                /\ call' = Called("settle_push", bet_id, "", popped.bet, chips_cents)
                /\ UNCHANGED <<configVars, wins, losses, net_cents, next_bet_id>>
    /\ UNCHANGED <<handVars, gameVars, clientVars>>

\* settle_loss(bet_id)
SettleLoss(bet_id) ==
    /\ LET popped == _pop_bet(active_bets, bet_id)
       IN  IF ~popped.found
           THEN Raises("settle_loss", bet_id, "KeyError")
           ELSE /\ active_bets' = popped.rest
                /\ closed_bets' = closed_bets \cup {bet_id}
                /\ hands_played' = hands_played + 1
                /\ losses' = losses + 1
                /\ net_cents' = net_cents - popped.bet
                /\ call' = Called("settle_loss", bet_id, "", 0, chips_cents)
                /\ UNCHANGED <<chips_cents, configVars, wins, pushes, next_bet_id>>
    /\ UNCHANGED <<handVars, gameVars, clientVars>>

\* a plausible slip: reset_stats clears the hands but forgets the pushes
ResetStatsKeepsPushes ==
    /\ hands_played' = 0
    /\ wins' = 0
    /\ losses' = 0
    /\ net_cents' = 0
    /\ call' = Called("reset_stats", 0, "", 0, chips_cents)
    /\ UNCHANGED <<chips_cents, configVars, betVars, pushes>>
    /\ UNCHANGED <<handVars, gameVars, clientVars>>

\* reset_stats()
ResetStats ==
    /\ hands_played' = 0
    /\ wins' = 0
    /\ losses' = 0
    /\ pushes' = 0
    /\ net_cents' = 0
    /\ call' = Called("reset_stats", 0, "", 0, chips_cents)
    /\ UNCHANGED <<chips_cents, configVars, betVars>>
    /\ UNCHANGED <<handVars, gameVars, clientVars>>

LedgerNext ==
    \/ \E a \in Amounts : DepositCents(a)
    \/ \E a \in Amounts : WithdrawCents(a)
    \/ \E a \in Amounts : PlaceBet(a)
    \/ \E id \in BetIds : CancelBet(id)
    \/ \E id \in BetIds, r \in PayoutRatios : SettleWin(id, r)
    \/ \E id \in BetIds : SettleBlackjack(id)
    \/ \E id \in BetIds : SettlePush(id)
    \/ \E id \in BetIds : SettleLoss(id)
    \/ ResetStats

\* ------------------------------------------------------------------------
\* A Deck driven directly by a caller: draw, discard, reshuffle
\* ------------------------------------------------------------------------

\* The three Deck classes of the repository.  The piles of each are held in
\* draw_pile and discard_pile (src/deck.py: _draw and _discard;
\* src/blackjack/deck.py: cards, and no discard pile), the threshold in
\* reshuffle_threshold (src/deck.py: _auto_reshuffle_threshold).
DeckClasses == {"blackjack.Deck", "deck.Deck", "blackjack.deck.Deck"}

\* a call on the Deck, as the caller made it
DeckCall(op, arg) == [op |-> op, arg |-> arg]

ClientIdle ==
    /\ deck_class = "blackjack.Deck"
    /\ held = EmptyPile
    /\ deck_raised = ""
    /\ deck_call = DeckCall("none", 0)

\* the caller has built no Deck yet
ClientInit ==
    /\ deck_class = "none"
    /\ num_decks = 0
    /\ reshuffle_threshold = 0
    /\ draw_pile = EmptyPile
    /\ discard_pile = EmptyPile
    /\ held = EmptyPile
    /\ deck_raised = ""
    /\ deck_call = DeckCall("none", 0)
    /\ player_hand = <<>>
    /\ dealer_hand = <<>>
    /\ pc = "new"
    /\ interactive = TRUE
    /\ result = ""
    /\ reshuffled = FALSE

\* the arguments a caller may pass to a constructor, valid or not
DeckCountArgs == (-1)..MaxDecks
ThresholdArgs == {-1, 0} \cup Thresholds

\* the tests at the head of Deck.__init__: does Deck(n, t) of class cls raise
\* ValueError?  src/blackjack.py rejects a threshold < 1, src/deck.py one < 0,
\* and src/blackjack/deck.py takes none.
DeckRejects(cls, n, t) ==
    \/ n < 1
    \/ cls = "blackjack.Deck" /\ t < 1
    \/ cls = "deck.Deck" /\ t < 0

\* Deck(num_decks = n, threshold = t) of class cls: ValueError and no object,
\* or a shuffled shoe; blackjack/deck.py's Deck takes no threshold (kept at 1)
DeckNew(cls, n, t) ==
    /\ pc = "new"
    /\ cls = "blackjack.deck.Deck" => t = 1
    /\ IF DeckRejects(cls, n, t)
       THEN /\ deck_raised' = "ValueError"
            /\ UNCHANGED <<deck_class, num_decks, reshuffle_threshold,
                           draw_pile, pc>>
       ELSE /\ deck_class' = cls
            /\ num_decks' = n
            /\ reshuffle_threshold' = t
            /\ draw_pile' = _build_shoe(n)
            /\ pc' = "caller"
            /\ deck_raised' = ""
    /\ deck_call' = DeckCall("init", 0)
    /\ UNCHANGED <<discard_pile, held, player_hand, dealer_hand, interactive,
                   result, reshuffled>>
    /\ UNCHANGED <<handVars, ledgerVars>>

\* the cards of the shoe, wherever they are, and the copies a caller may add
\* to them by discarding a card it does not hold
CardsInPlay == PileSize(draw_pile) + PileSize(discard_pile) + PileSize(held)
MaxExtra == 1

\* what every call on a Deck leaves alone
DeckFrame ==
    /\ UNCHANGED <<num_decks, reshuffle_threshold, player_hand, dealer_hand,
                   pc, interactive, result, deck_class>>
    /\ UNCHANGED <<handVars, ledgerVars>>

\* Deck.draw(1) of src/blackjack.py, called directly
DeckDrawOne ==
    /\ pc = "caller"
    /\ deck_class = "blackjack.Deck"
    /\ IF DrawFails
       THEN /\ deck_raised' = "RuntimeError"
            /\ UNCHANGED <<draw_pile, discard_pile, reshuffled, held>>
       ELSE \E c \in CardSet :
              /\ DeckDraw(c)
              /\ held' = [held EXCEPT ![c] = @ + 1]
              /\ deck_raised' = ""
    /\ deck_call' = DeckCall("draw", 1)
    /\ DeckFrame

\* Deck.discard([c]) of src/blackjack.py with a card the caller holds
DeckDiscard(c) ==
    /\ pc = "caller"
    /\ deck_class = "blackjack.Deck"
    /\ held[c] > 0
    /\ discard_pile' = discard(discard_pile, <<c>>)
    /\ held' = [held EXCEPT ![c] = @ - 1]
    /\ deck_raised' = ""
    /\ UNCHANGED <<draw_pile, reshuffled>>
    /\ deck_call' = DeckCall("discard", 0)
    /\ DeckFrame

\* Deck.discard([c]) of src/blackjack.py with a card that is not in the
\* caller's hands: one it has discarded before, or one of another deck.
\* discard() appends whatever it is given.
DeckDiscardExtra(c) ==
    /\ pc = "caller"
    /\ deck_class = "blackjack.Deck"
    /\ CardsInPlay < DeckSize * num_decks + MaxExtra
    /\ discard_pile' = discard(discard_pile, <<c>>)
    /\ deck_raised' = ""
    /\ UNCHANGED <<draw_pile, reshuffled, held>>
    /\ deck_call' = DeckCall("discard", 0)
    /\ DeckFrame

\* Deck.reshuffle_if_needed() of src/blackjack.py, called directly
DeckReshuffleIfNeeded ==
    /\ pc = "caller"
    /\ deck_class = "blackjack.Deck"
    /\ LET r == reshuffle_if_needed(draw_pile, discard_pile, reshuffle_threshold)
       IN  /\ draw_pile' = r[1]
           /\ discard_pile' = r[2]
           /\ reshuffled' = (reshuffled \/ r[2] # discard_pile)
    /\ deck_raised' = ""
    /\ UNCHANGED held
    /\ deck_call' = DeckCall("reshuffle_if_needed", 0)
    /\ DeckFrame

\* Deck.shuffle(full=True) of src/deck.py: <<_draw, _discard>> afterwards
shuffle_full(dp, disc) ==
    IF PileSize(disc) > 0 THEN <<PileUnion(dp, disc), EmptyPile>>
    ELSE <<dp, disc>>

\* Deck.needs_reshuffle() of src/deck.py
needs_reshuffle(dp, disc, threshold) ==
    PileSize(dp) < threshold /\ PileSize(disc) > 0

\* Deck._maybe_auto_reshuffle() of src/deck.py
_maybe_auto_reshuffle(dp, disc, threshold) ==
    IF needs_reshuffle(dp, disc, threshold) THEN shuffle_full(dp, disc)
    ELSE <<dp, disc>>

\* a plausible slip: no reshuffle for want of cards, only the automatic one
ShoeBeforePopAutoOnly(count) ==
    _maybe_auto_reshuffle(draw_pile, discard_pile, reshuffle_threshold)

\* Deck.draw(count) of src/deck.py up to the pop: the piles once the
\* automatic reshuffle and the reshuffle for want of cards have run
ShoeBeforePop(count) ==
    LET auto == _maybe_auto_reshuffle(draw_pile, discard_pile, reshuffle_threshold)
        full == IF PileSize(auto[1]) < count /\ PileSize(auto[2]) > 0
                THEN shuffle_full(auto[1], auto[2])
                ELSE auto
    IN  full

\* the largest count a caller passes to draw
MaxDraw == 2

\* the ways of taking k cards off a shuffled pile p
SubPiles(p, k) ==
    LET most == IF k < num_decks + MaxExtra THEN k ELSE num_decks + MaxExtra
    IN  {t \in [CardSet -> 0..most] :
           PileSize(t) = k /\ \A c \in CardSet : t[c] <= p[c]}

\* the counts a caller passes to draw: none, a few, and more than the shoe
DrawCounts == 0..MaxDraw \cup {DeckSize * num_decks + 1}

\* Deck.draw(count) of src/deck.py: [] for a count below 1, IndexError when
\* the piles together hold fewer than count cards, count cards otherwise
ShoeDraw(count) ==
    /\ pc = "caller"
    /\ deck_class = "deck.Deck"
    /\ IF count < 1
       THEN /\ deck_raised' = ""
            /\ UNCHANGED <<draw_pile, discard_pile, reshuffled, held>>
       ELSE IF PileSize(ShoeBeforePop(count)[1]) < count
       THEN /\ deck_raised' = "IndexError"
            /\ draw_pile' = ShoeBeforePop(count)[1]
            /\ discard_pile' = ShoeBeforePop(count)[2]
            /\ reshuffled' = (reshuffled \/ ShoeBeforePop(count)[2] # discard_pile)
            /\ UNCHANGED held
       ELSE \E taken \in SubPiles(ShoeBeforePop(count)[1], count) :
              /\ draw_pile' = [c \in CardSet |-> ShoeBeforePop(count)[1][c] - taken[c]]
              /\ discard_pile' = ShoeBeforePop(count)[2]
              /\ reshuffled' = (reshuffled \/ ShoeBeforePop(count)[2] # discard_pile)
              /\ held' = PileUnion(held, taken)
              /\ deck_raised' = ""
    /\ deck_call' = DeckCall("draw", count)
    /\ DeckFrame

\* Deck.discard(c) of src/deck.py with a card the caller holds
ShoeDiscard(c) ==
    /\ pc = "caller"
    /\ deck_class = "deck.Deck"
    /\ held[c] > 0
    /\ discard_pile' = [discard_pile EXCEPT ![c] = @ + 1]
    /\ held' = [held EXCEPT ![c] = @ - 1]
    /\ deck_raised' = ""
    /\ UNCHANGED <<draw_pile, reshuffled>>
    /\ deck_call' = DeckCall("discard", 0)
    /\ DeckFrame

\* Deck.discard(c) of src/deck.py with a card that is not in the caller's
\* hands: one it has discarded before, or one of another deck.  discard()
\* appends whatever it is given.
ShoeDiscardExtra(c) ==
    /\ pc = "caller"
    /\ deck_class = "deck.Deck"
    /\ CardsInPlay < DeckSize * num_decks + MaxExtra
    /\ discard_pile' = [discard_pile EXCEPT ![c] = @ + 1]
    /\ deck_raised' = ""
    /\ UNCHANGED <<draw_pile, reshuffled, held>>
    /\ deck_call' = DeckCall("discard", 0)
    /\ DeckFrame

\* Deck.shuffle(full=full) of src/deck.py, called directly: the default,
\* full=True, first moves the discards into the draw pile; full=False only
\* permutes the draw pile
ShoeShuffle(full) ==
    /\ pc = "caller"
    /\ deck_class = "deck.Deck"
    /\ LET r == IF full THEN shuffle_full(draw_pile, discard_pile)
                ELSE <<draw_pile, discard_pile>>
       IN  /\ draw_pile' = r[1]
           /\ discard_pile' = r[2]
           /\ reshuffled' = (reshuffled \/ r[2] # discard_pile)
    /\ deck_raised' = ""
    /\ UNCHANGED held
    /\ deck_call' = DeckCall("shuffle", IF full THEN 1 ELSE 0)
    /\ DeckFrame

\* a plausible slip: reset() rebuilds the draw pile and forgets the discards
ShoeResetKeepsDiscards ==
    /\ pc = "caller"
    /\ deck_class = "deck.Deck"
    /\ draw_pile' = _build_shoe(num_decks)
    /\ held' = EmptyPile
    /\ deck_raised' = ""
    /\ UNCHANGED <<discard_pile, reshuffled>>
    /\ deck_call' = DeckCall("reset", 0)
    /\ DeckFrame

\* Deck.reset() of src/deck.py: the discard pile is cleared and a standard
\* shoe is built and shuffled; the caller drops the cards of the old one
ShoeReset ==
    /\ pc = "caller"
    /\ deck_class = "deck.Deck"
    /\ discard_pile' = EmptyPile
    /\ draw_pile' = shuffle_full(_build_shoe(num_decks), discard_pile')[1]
    /\ held' = EmptyPile
    /\ deck_raised' = ""
    /\ UNCHANGED reshuffled
    /\ deck_call' = DeckCall("reset", 0)
    /\ DeckFrame

\* Deck.draw() of src/blackjack/deck.py
CardsDraw ==
    /\ pc = "caller"
    /\ deck_class = "blackjack.deck.Deck"
    /\ IF PileSize(draw_pile) = 0
       THEN /\ deck_raised' = "IndexError"
            /\ UNCHANGED <<draw_pile, held>>
       ELSE \E c \in CardSet :
              /\ draw_pile[c] > 0
              /\ draw_pile' = [draw_pile EXCEPT ![c] = @ - 1]
              /\ held' = [held EXCEPT ![c] = @ + 1]
              /\ deck_raised' = ""
    /\ UNCHANGED <<discard_pile, reshuffled>>
    /\ deck_call' = DeckCall("draw", 1)
    /\ DeckFrame

\* Deck.shuffle() of src/blackjack/deck.py: the list is permuted in place
CardsShuffle ==
    /\ pc = "caller"
    /\ deck_class = "blackjack.deck.Deck"
    /\ deck_raised' = ""
    /\ UNCHANGED <<draw_pile, discard_pile, reshuffled, held>>
    /\ deck_call' = DeckCall("shuffle", 1)
    /\ DeckFrame

\* Deck.reset() of src/blackjack/deck.py: a fresh shoe; the caller drops
\* the cards of the old one
CardsReset ==
    /\ pc = "caller"
    /\ deck_class = "blackjack.deck.Deck"
    /\ draw_pile' = _build_shoe(num_decks)
    /\ held' = EmptyPile
    /\ deck_raised' = ""
    /\ UNCHANGED <<discard_pile, reshuffled>>
    /\ deck_call' = DeckCall("reset", 0)
    /\ DeckFrame

ClientNext ==
    \/ \E cls \in DeckClasses, n \in DeckCountArgs, t \in ThresholdArgs :
          DeckNew(cls, n, t)
    \/ DeckDrawOne
    \/ \E c \in CardSet : DeckDiscard(c)
    \/ DeckReshuffleIfNeeded
    \/ \E count \in DrawCounts : ShoeDraw(count)
    \/ \E c \in CardSet : ShoeDiscard(c)
    \/ \E full \in BOOLEAN : ShoeShuffle(full)
    \/ ShoeReset
    \/ CardsDraw
    \/ CardsShuffle
    \/ CardsReset

\* ------------------------------------------------------------------------
\* Game.settle on hands assembled card by card
\* ------------------------------------------------------------------------

\* Cards are added to game.player.hand and game.dealer.hand directly, up to
\* MaxSettleLen each, and Game.settle() is called on every pair.
MaxSettleLen == 3

SettleInit ==
    /\ num_decks = MinDecks
    /\ reshuffle_threshold = 15
    /\ draw_pile = _build_shoe(num_decks)
    /\ discard_pile = EmptyPile
    /\ player_hand = <<>>
    /\ dealer_hand = <<>>
    /\ pc = "hands"
    /\ interactive = TRUE
    /\ result = settle(<<>>, <<>>)
    /\ reshuffled = FALSE

\* game.player.hand.add_card(c); game.settle()
SettlePlayerCard(c) ==
    /\ pc = "hands"
    /\ Len(player_hand) < MaxSettleLen
    /\ player_hand' = Append(player_hand, c)
    /\ result' = settle(player_hand', dealer_hand)
    /\ UNCHANGED <<num_decks, reshuffle_threshold, draw_pile, discard_pile,
                   dealer_hand, pc, interactive, reshuffled>>
    /\ UNCHANGED <<handVars, ledgerVars, clientVars>>

\* game.dealer.hand.add_card(c); game.settle()
SettleDealerCard(c) ==
    /\ pc = "hands"
    /\ Len(dealer_hand) < MaxSettleLen
    /\ dealer_hand' = Append(dealer_hand, c)
    /\ result' = settle(player_hand, dealer_hand')
    /\ UNCHANGED <<num_decks, reshuffle_threshold, draw_pile, discard_pile,
                   player_hand, pc, interactive, reshuffled>>
    /\ UNCHANGED <<handVars, ledgerVars, clientVars>>

SettleNext ==
    \/ \E c \in CardSet : SettlePlayerCard(c)
    \/ \E c \in CardSet : SettleDealerCard(c)

\* ------------------------------------------------------------------------
\* Specifications
\* ------------------------------------------------------------------------

Init == GameInit /\ HandIdle /\ LedgerIdle /\ ClientIdle

Next == GameNext

Spec == Init /\ [][Next]_vars

\* play_round(interactive=False) is straight-line code: once called, it takes
\* its next step without waiting for anything (the interactive player_turn
\* waits for input, and a new round waits for the caller)
RoundStep ==
    \/ DealInitial
    \/ PlayerAutoHit
    \/ PlayerAutoReturn
    \/ DealerDraw
    \/ DealerStand
    \/ Settle
    \/ CleanupRound

SpecFair == Init /\ [][Next]_vars /\ WF_vars(RoundStep)

InitHand == HandInit /\ GameIdle /\ LedgerIdle /\ ClientIdle

NextHand == HandNext

SpecHand == InitHand /\ [][NextHand]_vars

InitPlayer == LedgerInit /\ GameIdle /\ HandIdle /\ ClientIdle

NextPlayer == LedgerNext

SpecPlayer == InitPlayer /\ [][NextPlayer]_vars

InitDeck == ClientInit /\ HandIdle /\ LedgerIdle

NextDeck == ClientNext

SpecDeck == InitDeck /\ [][NextDeck]_vars

\* a caller of the Deck of src/blackjack.py or of src/deck.py that draws card
\* by card, shuffles and reshuffles, and may also discard cards it does not
\* hold; a single deck is enough to exceed the size of the shoe
NextDeckAnyDiscard ==
    \/ \E cls \in {"blackjack.Deck", "deck.Deck"}, n \in (-1)..1,
          t \in ThresholdArgs : DeckNew(cls, n, t)
    \/ DeckDrawOne
    \/ \E c \in CardSet : DeckDiscard(c)
    \/ \E c \in CardSet : DeckDiscardExtra(c)
    \/ DeckReshuffleIfNeeded
    \/ ShoeDraw(1)
    \/ \E c \in CardSet : ShoeDiscard(c)
    \/ \E c \in CardSet : ShoeDiscardExtra(c)
    \/ \E full \in BOOLEAN : ShoeShuffle(full)

SpecDeckAnyDiscard == InitDeck /\ [][NextDeckAnyDiscard]_vars

InitSettle == SettleInit /\ HandIdle /\ LedgerIdle /\ ClientIdle

NextSettle == SettleNext

SpecSettle == InitSettle /\ [][NextSettle]_vars

\* ------------------------------------------------------------------------
\* Claims on the hand valuation (SpecHand)
\* ------------------------------------------------------------------------

RECURSIVE NonAceSum(_)
NonAceSum(ranks) ==
    IF ranks = <<>> THEN 0
    ELSE (IF Head(ranks) = "A" THEN 0
          ELSE IF Head(ranks) \in {"10", "J", "Q", "K"} THEN 10
          ELSE IntOfRank(Head(ranks))) + NonAceSum(Tail(ranks))

NumAces(ranks) == Cardinality({i \in 1..Len(ranks) : ranks[i] = "A"})

\* the totals obtainable by counting each ace as 1 or as 11
Obtainable(ranks) ==
    {NonAceSum(ranks) + 11 * k + (NumAces(ranks) - k) : k \in 0..NumAces(ranks)}

SetMax(S) == CHOOSE x \in S : \A y \in S : y <= x

BestObtainable(ranks) ==
    LET within == {t \in Obtainable(ranks) : t <= 21}
    IN  IF within # {} THEN SetMax(within)
        ELSE NonAceSum(ranks) + NumAces(ranks)

\* C1: for every hand, Hand.value() (src/blackjack.py), Hand.total
\* (src/blackjack/deck.py) and the total of best_total (src/blackjack/utils.py)
\* are the largest total obtainable by counting each ace as 1 or 11 that does
\* not exceed 21, or, when there is none, the total with every ace as 1;
\* {A,9} = 20, {A,9,9} = 19, {A,A,9} = 21.
C1_BestTotal ==
    /\ h_value = BestObtainable(h_ranks)
    /\ h_total = BestObtainable(h_ranks)
    /\ h_best[1] = BestObtainable(h_ranks)
    /\ (h_ranks = <<"A", "9">> => h_value = 20)
    /\ (h_ranks = <<"A", "9", "9">> => h_value = 19)
    /\ (h_ranks = <<"A", "A", "9">> => h_value = 21)

\* a hand with several aces, one of them demoted
C1_Witness == h_ranks = <<"A", "A", "9">> /\ h_value = 21 /\ h_total = 21

\* ------------------------------------------------------------------------
\* Claims on Game (Spec)
\* ------------------------------------------------------------------------

InHands == PileUnion(PileOfSeq(player_hand), PileOfSeq(dealer_hand))

\* C2: in every state of play (between draws, hits, dealer draws and
\* cleanups) the draw pile, the discard pile and the two hands together hold
\* exactly the DeckSize * num_decks cards built at construction, none lost
\* and none duplicated; between rounds the hands are empty and draw pile +
\* discard pile hold DeckSize * num_decks cards.
C2_CardConservation ==
    /\ PileUnion(PileUnion(draw_pile, discard_pile), InHands)
         = [c \in CardSet |-> num_decks]
    /\ pc = "idle" =>
         /\ player_hand = <<>>
         /\ dealer_hand = <<>>
         /\ PileSize(draw_pile) + PileSize(discard_pile) = DeckSize * num_decks

\* a round in which a draw refilled the empty draw pile from the discards,
\* with cards in both hands and in the draw pile
C2_Witness ==
    /\ reshuffled
    /\ Len(player_hand) >= 3
    /\ Len(dealer_hand) = 2
    /\ PileSize(draw_pile) > 0

\* the naturals of the initial deal: the first two cards of each hand
DealDone == Len(player_hand) >= 2 /\ Len(dealer_hand) >= 2

PlayerNatural == DealDone /\ is_blackjack(SubSeq(player_hand, 1, 2))

DealerNatural == DealDone /\ is_blackjack(SubSeq(dealer_hand, 1, 2))

\* C3: when the player holds a natural after the initial deal and the dealer
\* does not, the round ends at once with a player (blackjack) win: the dealer
\* draws no further card and the result is never a Push or a dealer win.
C3_PlayerNaturalEndsRound ==
    (PlayerNatural /\ ~DealerNatural) =>
        /\ Len(dealer_hand) = 2
        /\ result \notin {"Push", "Dealer wins", "Dealer wins (player busts)"}

\* C3, the result alone: a player natural against a dealer without one is
\* never settled as a Push or a dealer win.
C3_PlayerNaturalNeverPush ==
    (PlayerNatural /\ ~DealerNatural /\ pc = "cleanup") =>
        result \notin {"Push", "Dealer wins", "Dealer wins (player busts)"}

\* C4: when the dealer holds a natural after the initial deal and the player
\* does not, the player never acts (the player's hand keeps its two initial
\* cards) and the outcome is a dealer win.
C4_DealerNaturalPlayerNeverActs ==
    (DealerNatural /\ ~PlayerNatural) =>
        /\ Len(player_hand) = 2
        /\ pc # "player"
        /\ result \in {"", "Dealer wins"}

\* C4, the result alone: a dealer natural against a player without one is
\* always settled as a dealer win.
C4_DealerNaturalDealerWins ==
    (DealerNatural /\ ~PlayerNatural /\ pc = "cleanup") =>
        result \in {"Dealer wins", "Dealer wins (player busts)"}

\* C5: when both hold naturals after the initial deal, the outcome is Push
\* and no card is drawn after the initial four.
C5_BothNaturalsPush ==
    (PlayerNatural /\ DealerNatural) =>
        /\ Len(player_hand) = 2
        /\ Len(dealer_hand) = 2
        /\ pc \in {"dealer", "settle", "cleanup"}
        /\ (pc = "settle" => result = "")
        /\ (pc = "cleanup" => result = "Push")

\* both naturals, settled
C5_Witness ==
    /\ PlayerNatural
    /\ DealerNatural
    /\ pc = "cleanup"
    /\ result = "Push"

\* ------------------------------------------------------------------------
\* Claims on the ledger (SpecPlayer)
\* ------------------------------------------------------------------------

SettleOps == {"settle_win", "settle_blackjack", "settle_push", "settle_loss"}

PopOps == SettleOps \cup {"cancel_bet"}

\* the next state results from a call of op (call records the last call)
Returned(op) == call'.op = op /\ call'.raised = ""

\* C6: a bet is settled at most once: once a bet id has been settled or
\* cancelled, every later settle_* or cancel_bet call with that id is rejected
\* with an error and leaves chips, statistics and the other active bets
\* unchanged, however many bets are placed in between; a bet id is never
\* reused for a later bet.
C6_SettledAtMostOnce ==
    [][ /\ (call'.op \in PopOps /\ call'.arg \in closed_bets) =>
              /\ call'.raised = "KeyError"
              /\ UNCHANGED <<chips_cents, statVars, active_bets, next_bet_id>>
        /\ Returned("place_bet") =>
              /\ call'.ret \notin closed_bets
              /\ call'.ret \notin DOMAIN active_bets
        /\ closed_bets' \cap DOMAIN active_bets' = {}
      ]_vars

\* a second settlement of a closed bet was rejected, after a later bet was
\* placed and while it is active
C6_Witness ==
    /\ call.op = "settle_win"
    /\ call.raised = "KeyError"
    /\ call.arg \in closed_bets
    /\ next_bet_id > call.arg + 1
    /\ active_bets # <<>>
    /\ hands_played = 1

RoundHalfUp3to2(b) == (3 * b + 1) \div 2

Floor3to2(b) == (3 * b) \div 2

\* C7: for every bet b placed from balance B and settled with
\* settle_blackjack, the credit is b plus the 3:2 profit 1.5*b rounded to the
\* nearest cent with halves rounded up, so the balance ends at
\* B + round_half_up(1.5*b).
C7_BlackjackHalfUp ==
    [][ Returned("settle_blackjack") =>
          LET b == active_bets[call'.arg]
          IN  /\ call'.ret = b + RoundHalfUp3to2(b)
              /\ chips_cents' = chips_cents + b + RoundHalfUp3to2(b)
              /\ (call.op = "place_bet" /\ call.raised = "" /\ call.ret = call'.arg)
                   => chips_cents' = call.before + RoundHalfUp3to2(b)
      ]_vars

\* C7 as the code has it: the 3:2 profit is 1.5*b rounded down to the cent
\* (floor, in one step), the credit is b + floor(1.5*b), and a bet placed
\* from balance B and settled at once leaves B + floor(1.5*b).
C7_BlackjackFloor ==
    [][ Returned("settle_blackjack") =>
          LET b == active_bets[call'.arg]
          IN  /\ call'.ret = b + Floor3to2(b)
              /\ chips_cents' = chips_cents + b + Floor3to2(b)
              /\ net_cents' = net_cents + Floor3to2(b)
              /\ (call.op = "place_bet" /\ call.raised = "" /\ call.ret = call'.arg)
                   => chips_cents' = call.before + Floor3to2(b)
      ]_vars

\* settle_blackjack has paid a bet of 1 cent: credit 1 + floor(1.5) = 2
C7_Witness ==
    /\ call.op = "settle_blackjack"
    /\ call.raised = ""
    /\ call.ret = 2
    /\ chips_cents = call.before + 2

\* C8: the ledger balance is never negative, whatever calls are made,
\* failed ones included.
C8_ChipsNonNegative == chips_cents >= 0

\* the amount is outside the range place_bet accepts
OutOfRange(amount) ==
    \/ amount <= 0
    \/ amount < min_bet_cents
    \/ (max_bet_cents # None /\ amount > max_bet_cents)
    \/ amount > chips_cents

\* C9: place_bet(amount) with amount <= 0, below min_bet_cents, above
\* max_bet_cents or above the current chips fails with an error and leaves
\* chips, the active bets, the next bet id and all statistics as before.
C9_RejectedBetNoChange ==
    [][ (call'.op = "place_bet" /\ OutOfRange(call'.arg)) =>
          /\ call'.raised = "ValueError"
          /\ UNCHANGED <<chips_cents, active_bets, next_bet_id, statVars,
                         closed_bets, configVars>>
      ]_vars

\* a bet above the table maximum was rejected while chips covered it and
\* another bet was active
C9_Witness ==
    /\ call.op = "place_bet"
    /\ call.raised = "ValueError"
    /\ max_bet_cents # None
    /\ call.arg > max_bet_cents
    /\ call.arg <= chips_cents
    /\ active_bets # <<>>

RECURSIVE SumBets(_, _)
SumBets(bets, ids) ==
    IF ids = {} THEN 0
    ELSE LET i == CHOOSE x \in ids : TRUE
         IN  bets[i] + SumBets(bets, ids \ {i})

\* C10: a successful place_bet(amount) decreases chips by exactly amount and
\* records exactly one new active bet of that amount in the same step; while
\* the bet is active its amount is not part of chips: a later place_bet or
\* withdraw_cents succeeds only for an amount within chips, which no call
\* other than a settlement or cancellation of a bet or a deposit increases.
C10_BetDebitedAtomically ==
    [][ /\ Returned("place_bet") =>
              /\ chips_cents' = chips_cents - call'.arg
              /\ DOMAIN active_bets' = DOMAIN active_bets \cup {call'.ret}
              /\ call'.ret \notin DOMAIN active_bets
              /\ active_bets'[call'.ret] = call'.arg
              /\ \A i \in DOMAIN active_bets : active_bets'[i] = active_bets[i]
              /\ chips_cents' + SumBets(active_bets', DOMAIN active_bets')
                   = chips_cents + SumBets(active_bets, DOMAIN active_bets)
        /\ (Returned("place_bet") \/ Returned("withdraw_cents")) =>
              /\ call'.arg <= chips_cents
              /\ chips_cents' = chips_cents - call'.arg
        /\ chips_cents' > chips_cents =>
              \/ Returned("deposit_cents")
              \/ (call'.op \in PopOps /\ call'.raised = ""
                    /\ call'.arg \in DOMAIN active_bets
                    /\ call'.arg \notin DOMAIN active_bets')
      ]_vars

\* a second bet was placed while the first is still active
C10_Witness ==
    /\ call.op = "place_bet"
    /\ call.raised = ""
    /\ call.ret = 2
    /\ DOMAIN active_bets = {1, 2}
    /\ chips_cents = call.before - call.arg

\* C11: for a bet b placed from balance B, place_bet followed by settle_push
\* leaves the balance at B, followed by settle_loss at B - b, and followed by
\* settle_win at the default even-money ratio at B + b; whenever they return,
\* a push credits the bet, a loss credits nothing and an even-money win
\* credits twice the bet.
C11_RoundTrip ==
    [][ /\ (call.op = "place_bet" /\ call.raised = "") =>
              LET id == call.ret
                  b  == call.arg
                  B  == call.before
              IN  /\ SettlePush(id) => chips_cents' = B
                  /\ SettleLoss(id) => chips_cents' = B - b
                  /\ SettleWin(id, DefaultPayoutRatio) => chips_cents' = B + b
        /\ \A id \in DOMAIN active_bets :
              LET b == active_bets[id]
              IN  /\ SettlePush(id) =>
                        chips_cents' = chips_cents + b /\ net_cents' = net_cents
                  /\ SettleLoss(id) =>
                        chips_cents' = chips_cents /\ net_cents' = net_cents - b
                  /\ SettleWin(id, DefaultPayoutRatio) =>
                        chips_cents' = chips_cents + 2 * b /\ net_cents' = net_cents + b
      ]_vars

\* a bet of 2 placed from a balance of 2 and won at even money: balance 4
C11_Witness ==
    /\ call.op = "settle_win"
    /\ call.raised = ""
    /\ call.ret = 4
    /\ call.before = 0
    /\ chips_cents = 4
    /\ net_cents = 2
    /\ hands_played = 1

\* ------------------------------------------------------------------------
\* Claims on a Deck driven directly (SpecDeck)
\* ------------------------------------------------------------------------

\* C12: drawing never fails: when the draw pile is empty, draw rebuilds and
\* shuffles the shoe and returns a card, for every deck of num_decks >= 1;
\* drawing every card of a single deck and then one more succeeds.
C12_DrawNeverFails == deck_raised \notin {"RuntimeError", "IndexError"}

\* ------------------------------------------------------------------------
\* Claims on Game: the shoe during play (Spec)
\* ------------------------------------------------------------------------

\* play_round's next step may be a draw
DrawPending ==
    \/ pc = "deal"
    \/ pc = "player" /\ (interactive \/ value(player_hand) < 16)
    \/ pc = "dealer" /\ DealerMustHit(dealer_hand)

\* C13: in any sequence of play_round calls, with any hit/stand choices, no
\* draw is attempted while the draw pile and the discard pile are both empty:
\* Deck.draw never raises its RuntimeError.
C13_NoFatalDraw ==
    /\ pc # "fatal"
    /\ DrawPending => ~DrawFails

\* a draw found the draw pile empty and refilled it from the discards, and
\* the round went on to its end
C13_Witness ==
    /\ reshuffled
    /\ pc = "cleanup"
    /\ PileSize(draw_pile) = 0

\* C14: a round is never interrupted by a reshuffle: between the first card
\* dealt in a round and the end of that round no draw moves discard-pile
\* cards into the draw pile.
C14_NoMidRoundReshuffle ==
    [][ (pc \in {"deal", "player", "dealer"}) =>
          (discard_pile' = discard_pile
             /\ PileSize(draw_pile') <= PileSize(draw_pile))
      ]_vars

\* play_round stands between the reshuffle check and the first card dealt
DealBegins == pc = "deal" /\ player_hand = <<>> /\ dealer_hand = <<>>

ShoeSize == DeckSize * num_decks

Min(a, b) == IF a < b THEN a ELSE b

\* C15: when the initial deal of a round begins, the draw pile holds at least
\* reshuffle_threshold cards, for every configuration accepted at
\* construction and after any number of earlier rounds.
C15_ThresholdCardsAtDeal ==
    DealBegins => cards_remaining(draw_pile) >= reshuffle_threshold

\* C15 as the code has it: when the initial deal of a round begins, the draw
\* pile holds at least reshuffle_threshold cards or, when the threshold
\* exceeds the size of the shoe, the whole shoe; when it holds fewer than the
\* threshold, the discard pile is empty.
C15_ThresholdOrShoeAtDeal ==
    DealBegins =>
        /\ cards_remaining(draw_pile) >= Min(reshuffle_threshold, ShoeSize)
        /\ (cards_remaining(draw_pile) < reshuffle_threshold
              => discard_pile_size(discard_pile) = 0)

\* a deal begins after earlier rounds, with discards left aside and the draw
\* pile just at the threshold
C15_Witness ==
    /\ DealBegins
    /\ discard_pile_size(discard_pile) > 0
    /\ cards_remaining(draw_pile) = reshuffle_threshold

\* ------------------------------------------------------------------------
\* Claims on a Deck driven directly, continued (SpecDeck)
\* ------------------------------------------------------------------------

\* C16: needs_reshuffle() is true in every shoe state where the cards
\* remaining in the draw pile are fewer than the reshuffle threshold and
\* false in every other state.
C16_NeedsReshuffleIffLow ==
    deck_class = "deck.Deck" =>
        (needs_reshuffle(draw_pile, discard_pile, reshuffle_threshold)
           <=> PileSize(draw_pile) < reshuffle_threshold)

\* C16, for the cards drawn down below the threshold of a larger shoe
C16_NeedsReshuffleAfterDraws ==
    (deck_class = "deck.Deck" /\ reshuffle_threshold <= ShoeSize
       /\ PileSize(draw_pile) < reshuffle_threshold)
      => needs_reshuffle(draw_pile, discard_pile, reshuffle_threshold)

\* a step that draws one card from a Deck with a discard pile
DrawsOne ==
    /\ DeckDrawOne \/ ShoeDraw(1)
    /\ deck_raised' = ""

\* every card drawn so far is still with the caller
NoneDiscarded ==
    /\ PileSize(discard_pile) = 0
    /\ PileSize(draw_pile) + PileSize(held) = ShoeSize

\* C17: the deck reshuffles when it runs low: after cards have been drawn
\* one by one (none discarded) until fewer than the threshold remain, the
\* next draw brings the shoe back to its full size before drawing, so that
\* after it the remaining count is the full shoe size minus 1.
C17_ReshufflesWhenLow ==
    [][ (DrawsOne /\ NoneDiscarded /\ PileSize(held) > 0
           /\ PileSize(draw_pile) < reshuffle_threshold)
          => PileSize(draw_pile') = ShoeSize - 1
      ]_vars

\* ------------------------------------------------------------------------
\* Claims on Game: the dealer's turn and the outcome (Spec, SpecSettle)
\* ------------------------------------------------------------------------

\* C18: in dealer_turn the dealer draws a card exactly while the dealer total
\* is <= 16 and never draws once it is >= 17, soft 17 included; whenever
\* dealer_turn returns, the dealer total is >= 17 (standing or bust).
C18_DealerRule ==
    [][ /\ (pc = "dealer" /\ dealer_hand' # dealer_hand)
              => value(dealer_hand) <= 16
        /\ (pc = "dealer" /\ value(dealer_hand) >= 17)
              => (dealer_hand' = dealer_hand /\ pc' = "settle")
        /\ (pc = "dealer" /\ value(dealer_hand) <= 16)
              => (Len(dealer_hand') = Len(dealer_hand) + 1
                    /\ SubSeq(dealer_hand', 1, Len(dealer_hand)) = dealer_hand)
        /\ (pc = "dealer" /\ pc' = "settle")
              => value(dealer_hand') >= 17
      ]_vars

\* the dealer has stood on a soft 17 (ace and six) against a standing player
C18_Witness ==
    /\ pc = "settle"
    /\ ~is_bust(player_hand)
    /\ Len(dealer_hand) = 2
    /\ value(dealer_hand) = 17
    /\ CountAces(dealer_hand) = 1

\* C19: if a hit busts the player, the round goes straight to settlement:
\* the dealer does not act (the dealer's hand holds its two initial cards
\* when the result is computed) and the result is a dealer win whatever the
\* dealer's total is.
C19_PlayerBustSettles ==
    is_bust(player_hand) =>
        /\ pc \in {"settle", "cleanup"}
        /\ Len(dealer_hand) = 2
        /\ (pc = "settle" => result = "")
        /\ (pc = "cleanup" => result = "Dealer wins (player busts)")

\* the player has bust against a dealer who holds 16 or less and has not drawn
C19_Witness ==
    /\ is_bust(player_hand)
    /\ pc = "cleanup"
    /\ value(dealer_hand) <= 16
    /\ result = "Dealer wins (player busts)"

\* C20: Game.settle, for every pair of final hands: a busted player loses,
\* even if the dealer is also bust; otherwise a busted dealer means the
\* player wins; otherwise the higher total wins and equal totals are a Push.
C20_OutcomeResolution ==
    LET p == value(player_hand)
        d == value(dealer_hand)
    IN  pc = "hands" =>
          /\ (p > 21) => result = "Dealer wins (player busts)"
          /\ (p <= 21 /\ d > 21) => result = "Player wins (dealer busts)"
          /\ (p <= 21 /\ d <= 21 /\ p > d) => result = "Player wins"
          /\ (p <= 21 /\ d <= 21 /\ d > p) => result = "Dealer wins"
          /\ (p <= 21 /\ d <= 21 /\ p = d) => result = "Push"

\* both hands are bust and the player has lost
C20_Witness ==
    /\ pc = "hands"
    /\ value(player_hand) > 21
    /\ value(dealer_hand) > 21
    /\ result = "Dealer wins (player busts)"

\* ------------------------------------------------------------------------
\* Claims on Game: the deal and the hands (Spec)
\* ------------------------------------------------------------------------

\* the cards of the shoe that are in neither hand
InShoe == PileSize(draw_pile) + PileSize(discard_pile)

\* C21: the initial deal makes exactly four draws from the shoe, in the order
\* player, dealer, player, dealer; when it finishes, the player's hand and the
\* dealer's hand each hold exactly two cards.
C21_InitialDeal ==
    [][ (pc = "deal") =>
          /\ InShoe' = InShoe - 1
          /\ Len(player_hand) = Len(dealer_hand) =>
               /\ Len(player_hand') = Len(player_hand) + 1
               /\ SubSeq(player_hand', 1, Len(player_hand)) = player_hand
               /\ dealer_hand' = dealer_hand
               /\ pc' = "deal"
          /\ Len(player_hand) # Len(dealer_hand) =>
               /\ Len(player_hand) = Len(dealer_hand) + 1
               /\ Len(dealer_hand') = Len(dealer_hand) + 1
               /\ SubSeq(dealer_hand', 1, Len(dealer_hand)) = dealer_hand
               /\ player_hand' = player_hand
          /\ (pc' # "deal") <=> (Len(player_hand') = 2 /\ Len(dealer_hand') = 2)
          /\ Len(player_hand') <= 2
      ]_vars

\* the first deal of a game has finished: four cards have left the shoe, two
\* in each hand
C21_Witness ==
    /\ pc = "player"
    /\ Len(player_hand) = 2
    /\ Len(dealer_hand) = 2
    /\ PileSize(draw_pile) = ShoeSize - 4
    /\ PileSize(discard_pile) = 0


\* ------------------------------------------------------------------------
\* Claims on the hand tests (SpecHand)
\* ------------------------------------------------------------------------

\* C22: natural blackjack is strictly a two-card property: is_blackjack
\* (Hand.is_blackjack of src/blackjack.py and is_blackjack of
\* src/blackjack/utils.py) is true exactly when the hand holds exactly two
\* cards and its total is 21; with three or more cards it is false even when
\* the total is exactly 21.
C22_BlackjackTwoCards ==
    /\ h_blackjack[1] <=> (Len(h_ranks) = 2 /\ BestObtainable(h_ranks) = 21)
    /\ h_blackjack[2] <=> (Len(h_ranks) = 2 /\ BestObtainable(h_ranks) = 21)
    /\ (Len(h_ranks) >= 3 /\ h_value = 21) =>
           (~h_blackjack[1] /\ ~h_blackjack[2])

\* a three-card 21 that is not a blackjack
C22_Witness ==
    /\ h_ranks = <<"5", "6", "K">>
    /\ h_value = 21
    /\ h_blackjack = <<FALSE, FALSE>>

\* C23: for every hand, the is_soft flag returned by best_total is true
\* exactly when, after ace demotion, at least one ace is still counted as 11
\* and the total is <= 21, that is, when the hand holds an ace and counting
\* one ace as 11 and the others as 1 does not exceed 21; for every bust hand
\* is_soft is false.
C23_SoftFlag ==
    /\ h_best[2] <=> (/\ NumAces(h_ranks) >= 1
                      /\ NonAceSum(h_ranks) + NumAces(h_ranks) + 10 <= 21)
    /\ h_best[2] <=> (/\ h_best[1] <= 21
                      /\ h_best[1] > NonAceSum(h_ranks) + NumAces(h_ranks))
    /\ h_best[1] > 21 => ~h_best[2]

\* two aces, one demoted and one still counted as 11
C23_Witness ==
    /\ h_ranks = <<"A", "A", "9">>
    /\ h_best = <<21, TRUE>>

\* a bust hand that holds an ace is not soft
C23_BustWitness ==
    /\ h_ranks = <<"A", "K", "K", "5">>
    /\ h_best = <<26, FALSE>>

\* C24: is_bust (Hand.is_bust of src/blackjack.py and is_bust of
\* src/blackjack/utils.py) is true exactly when the hand's best total exceeds
\* 21, that is, exactly when the sum with every ace counted as 1 exceeds 21;
\* a hand whose aces can still be counted as 1 within 21 is never bust, and
\* {10, 9, 5} is bust with total 24.
C24_BustIffOver21 ==
    /\ h_bust[1] <=> (BestObtainable(h_ranks) > 21)
    /\ h_bust[2] <=> (BestObtainable(h_ranks) > 21)
    /\ h_bust[1] <=> (NonAceSum(h_ranks) + NumAces(h_ranks) > 21)
    /\ h_bust[2] <=> (NonAceSum(h_ranks) + NumAces(h_ranks) > 21)
    /\ (h_ranks = <<"10", "9", "5">>) =>
           (h_value = 24 /\ h_best[1] = 24 /\ h_bust = <<TRUE, TRUE>>)

\* the hand {10, 9, 5}
C24_Witness ==
    /\ h_ranks = <<"10", "9", "5">>
    /\ h_value = 24
    /\ h_bust = <<TRUE, TRUE>>

\* an ace counted as 1 keeps a hand of 21 from being bust
C24_AceWitness ==
    /\ h_ranks = <<"A", "K", "K">>
    /\ h_value = 21
    /\ h_bust = <<FALSE, FALSE>>


\* ------------------------------------------------------------------------
\* Claims on the Deck classes called directly (SpecDeck), continued
\* ------------------------------------------------------------------------

\* how often card c occurs in a list of cards
Occurrences(cards, c) == Cardinality({i \in 1..Len(cards) : cards[i] = c})

SeqToSet(t) == {t[i] : i \in 1..Len(t)}

\* the list holds n copies of each of the 13 x 4 pairs of the ranks and
\* suits given, and nothing else
FullShoe(cards, n, suits, ranks) ==
    /\ Cardinality(SeqToSet(ranks)) = 13
    /\ Cardinality(SeqToSet(suits)) = 4
    /\ Len(cards) = 52 * n
    /\ \A r \in SeqToSet(ranks) : \A s \in SeqToSet(suits) :
           Occurrences(cards, Card(r, s)) = n

\* a Deck has been built and no card has left or re-entered its draw pile
Fresh ==
    /\ pc = "caller"
    /\ held = EmptyPile
    /\ discard_pile = EmptyPile
    /\ ~reshuffled

\* C25: a freshly built Deck with num_decks = n holds exactly 52*n cards and
\* each of the 13 ranks x 4 suits combinations occurs exactly n times (52
\* distinct cards for a single deck); the shuffle at construction does not
\* change this composition.
C25_FreshShoe ==
    Fresh =>
      /\ FullShoe(_build_shoe_list(num_decks, SUITS, RANKS), num_decks,
                  SUITS, RANKS)
      /\ FullShoe(_build_standard_shoe(num_decks), num_decks,
                  Deck_SUITS, Deck_RANKS)
      /\ \A c \in CardSet : draw_pile[c] = num_decks

\* a shoe of several decks just built
C25_Witness ==
    /\ Fresh
    /\ num_decks > 1
    /\ deck_raised = ""
    /\ \A c \in CardSet : draw_pile[c] = num_decks
    /\ Len(_build_shoe_list(num_decks, SUITS, RANKS)) = 52 * num_decks


\* a step that is a successful draw of count cards, from a shoe to which
\* the caller has added no card
DrawsCount(count) ==
    /\ CardsInPlay = DeckSize * num_decks
    /\ \/ ShoeDraw(count)
       \/ count = 1 /\ (DeckDrawOne \/ CardsDraw)
    /\ deck_raised' = ""

\* C26: every call of draw() for a single card decrements the remaining
\* count by exactly 1, and draw(k) returns exactly k cards and decrements it
\* by exactly k: remaining after the call equals remaining before the call
\* minus the number of cards returned, in every shoe state in which the call
\* succeeds.
C26_DrawDecrementsRemaining ==
    [][ \A count \in 1..MaxDraw :
          DrawsCount(count) =>
            /\ PileSize(held') = PileSize(held) + count
            /\ PileSize(draw_pile') = PileSize(draw_pile) - count
      ]_vars

\* C26, the part that holds: a successful draw(k) returns exactly k cards,
\* and the remaining count falls by k whenever the draw moved no discards
C26_DrawReturnsCount ==
    [][ \A count \in 1..MaxDraw :
          DrawsCount(count) =>
            /\ PileSize(held') = PileSize(held) + count
            /\ discard_pile' = discard_pile =>
                 PileSize(draw_pile') = PileSize(draw_pile) - count
      ]_vars

\* C27: a player total of exactly 21 reached by hitting is a terminal player
\* state: once the player's hand totals 21 in Game.player_turn, no further
\* hit is possible and the hand receives no more cards in that round.
C27_TwentyOneIsTerminal ==
    [][ (pc = "player" /\ Len(player_hand) >= 3 /\ value(player_hand) = 21)
          => player_hand' = player_hand
      ]_vars

\* C28: shoe size bound at the Deck interface: for the Deck of src/blackjack.py
\* and of src/deck.py built with num_decks = n, after any sequence of draw,
\* discard, shuffle and reshuffle calls the draw pile never holds more than
\* 52*n cards (DeckSize stands for the 52).
C28_DrawPileBound ==
    (pc = "caller" /\ deck_class \in {"blackjack.Deck", "deck.Deck"})
      => PileSize(draw_pile) <= DeckSize * num_decks

\* C28, for callers that only discard cards they hold
C28_DrawPileBoundNoExtra ==
    (pc = "caller" /\ deck_class \in {"blackjack.Deck", "deck.Deck"}
       /\ CardsInPlay = DeckSize * num_decks)
      => PileSize(draw_pile) <= DeckSize * num_decks

\* C29: invalid configuration aborts construction with an error: building a
\* Deck with num_decks < 1, building a Deck with a reshuffle threshold < 1
\* and building a Player ledger with a negative starting balance are each
\* rejected, and no object is created.
C29_InvalidConfigRejected ==
    /\ (pc = "caller" /\ deck_class \in {"blackjack.Deck", "deck.Deck"})
         => (num_decks >= 1 /\ reshuffle_threshold >= 1)
    /\ \A chips \in {-2, -1} : ~ValidPlayer(chips, 1, None)


\* ------------------------------------------------------------------------
\* Claims on Game: the life-cycle of the hands (Spec)
\* ------------------------------------------------------------------------

\* hand h becomes h2 by appending one card that the draw has taken off the shoe
AppendsDrawn(h, h2) ==
    /\ Len(h2) = Len(h) + 1
    /\ SubSeq(h2, 1, Len(h)) = h
    /\ BeforePop[1][h2[Len(h2)]] > 0
    /\ draw_pile' = [BeforePop[1] EXCEPT ![h2[Len(h2)]] = @ - 1]

\* C30: hand life-cycle in Game (src/blackjack.py): both hands are empty
\* whenever a round starts and again whenever play_round returns, and within
\* a round a hand changes only by appending one drawn card at a time (no card
\* is removed, replaced or reordered before cleanup).
C30_HandLifeCycle ==
    [][ /\ (pc = "idle" /\ pc' = "deal") =>
              (player_hand = <<>> /\ dealer_hand = <<>>
                 /\ player_hand' = <<>> /\ dealer_hand' = <<>>)
        /\ (pc' = "idle") =>
              (pc = "cleanup" /\ player_hand' = <<>> /\ dealer_hand' = <<>>)
        /\ (pc \notin {"idle", "cleanup"}) =>
              /\ player_hand' = player_hand \/ AppendsDrawn(player_hand, player_hand')
              /\ dealer_hand' = dealer_hand \/ AppendsDrawn(dealer_hand, dealer_hand')
              /\ player_hand' = player_hand \/ dealer_hand' = dealer_hand
      ]_vars

\* a round with a hit has been played and play_round has returned: the
\* hands are empty again and their cards are back in the shoe
C30_Witness ==
    /\ pc = "idle"
    /\ result # ""
    /\ player_hand = <<>>
    /\ dealer_hand = <<>>
    /\ PileSize(discard_pile) >= 5


\* ------------------------------------------------------------------------
\* Claims on the Deck classes called directly: reset, shuffle, failing draws
\* (SpecDeck)
\* ------------------------------------------------------------------------

\* C31: reset() restores a full shoe from any state: whatever cards were
\* drawn or discarded before, after reset() the remaining count is
\* 52*num_decks (DeckSize stands for the 52), with num_decks copies of every
\* card, and the discard pile is empty.
C31_ResetRestoresFullShoe ==
    deck_call.op = "reset" =>
      /\ PileSize(draw_pile) = DeckSize * num_decks
      /\ \A c \in CardSet : draw_pile[c] = num_decks
      /\ discard_pile = EmptyPile
      /\ deck_raised = ""

\* reset() has been called on a Deck of src/deck.py whose discards had
\* been shuffled back before
C31_Witness ==
    /\ deck_class = "deck.Deck"
    /\ deck_call.op = "reset"
    /\ reshuffled
    /\ PileSize(draw_pile) = DeckSize * num_decks
    /\ PileSize(discard_pile) = 0


\* C32: shuffle() does not change the card count: in every deck state, the
\* number of cards remaining in the draw pile after shuffle() equals the
\* number before it (shuffle only permutes the draw pile).
C32_ShuffleKeepsCount ==
    [][ (ShoeShuffle(TRUE) \/ CardsShuffle)
          => (PileSize(draw_pile') = PileSize(draw_pile)
                /\ draw_pile' = draw_pile)
      ]_vars

\* C32, the part that holds: shuffle() never changes the number of cards in
\* the two piles together, and leaves the draw pile's cards as they are
\* when the discard pile is empty or when full=False
C32_ShuffleKeepsTotal ==
    [][ \A full \in BOOLEAN :
          (ShoeShuffle(full) \/ CardsShuffle) =>
            /\ PileSize(draw_pile') + PileSize(discard_pile')
                 = PileSize(draw_pile) + PileSize(discard_pile)
            /\ (PileSize(discard_pile) = 0 \/ (~full /\ deck_class = "deck.Deck"))
                 => draw_pile' = draw_pile
      ]_vars


\* the cards Deck.total_count of src/deck.py counts
TotalCount == PileSize(draw_pile) + PileSize(discard_pile)

C33_EmptyWitness ==
    /\ deck_class = "deck.Deck"
    /\ deck_call = DeckCall("draw", 1)
    /\ deck_raised = "IndexError"
    /\ PileSize(held) = DeckSize * num_decks
    /\ TotalCount = 0


\* C38: a failed draw leaves the shoe unchanged (src/deck.py): when
\* draw(count) raises because too few cards are available, the draw pile and
\* the discard pile hold the same cards, in the same piles, as before the
\* call.
C38_FailedDrawLeavesShoe ==
    [][ (pc = "caller" /\ deck_class = "deck.Deck"
           /\ deck_call'.op = "draw" /\ deck_raised' = "IndexError")
          => (draw_pile' = draw_pile /\ discard_pile' = discard_pile)
      ]_vars

\* C38, the part that holds: a failed draw loses no card, and changes
\* nothing when the discard pile is empty
C38_FailedDrawKeepsTotal ==
    [][ (pc = "caller" /\ deck_class = "deck.Deck"
           /\ deck_call'.op = "draw" /\ deck_raised' = "IndexError")
          => /\ TotalCount' = TotalCount
             /\ held' = held
             /\ PileSize(discard_pile) = 0 =>
                  (draw_pile' = draw_pile /\ discard_pile' = discard_pile)
      ]_vars


\* ------------------------------------------------------------------------
\* Claims on Game: the order and the end of a round (Spec, SpecFair)
\* ------------------------------------------------------------------------

\* the place of each stage of play_round in the round
StageOrder(stage) ==
    CASE stage = "idle" -> 0 [] stage = "deal" -> 1 [] stage = "player" -> 2
      [] stage = "dealer" -> 3 [] stage = "settle" -> 4
      [] stage = "cleanup" -> 5 [] OTHER -> 6

\* C34: fixed round order in Game.play_round: within one round the events
\* occur only in the order reshuffle check, initial deal, player decisions,
\* dealer response, result, cleanup; the dealer never draws beyond the two
\* initial cards before the player's turn has ended, and the result is
\* computed only after the dealer's turn has ended or been skipped.
C34_RoundOrder ==
    [][ /\ pc' # pc =>
             \/ StageOrder(pc') > StageOrder(pc) /\ pc' # "fatal"
             \/ pc = "cleanup" /\ pc' = "idle"
        /\ pc = "idle" =>
             /\ pc' = "deal"
             /\ <<draw_pile', discard_pile'>> =
                  reshuffle_if_needed(draw_pile, discard_pile, reshuffle_threshold)
        /\ pc' = "player" /\ pc # "player" => pc = "deal"
        /\ pc = "player" => (Len(dealer_hand) = 2 /\ dealer_hand' = dealer_hand)
        /\ dealer_hand' # dealer_hand => pc \in {"deal", "dealer", "cleanup"}
        /\ player_hand' # player_hand => pc \in {"deal", "player", "cleanup"}
        /\ pc = "dealer" => Len(player_hand) >= 2 /\ ~is_bust(player_hand)
        /\ pc' = "settle" /\ pc # "settle" =>
             \/ pc = "player" /\ is_bust(player_hand')
             \/ pc = "dealer" /\ ~DealerMustHit(dealer_hand')
        /\ result' # result =>
             \/ pc = "idle" /\ result' = ""
             \/ pc = "settle" /\ result' = settle(player_hand, dealer_hand)
        /\ pc = "settle" =>
             (pc' = "cleanup" /\ player_hand' = player_hand
                /\ dealer_hand' = dealer_hand)
        /\ pc' = "cleanup" => (pc = "settle" /\ result' # "")
        /\ pc' = "idle" => pc = "cleanup"
      ]_vars

\* a round in which the player and then the dealer have drawn has its result
C34_Witness ==
    /\ pc = "cleanup"
    /\ result # ""
    /\ Len(player_hand) >= 3
    /\ Len(dealer_hand) >= 3


\* ------------------------------------------------------------------------
\* Claims about the ledger as a whole (SpecPlayer)
\* ------------------------------------------------------------------------

\* what the ledger accounts for: chips, plus the active bets, minus the net
Funds(chips, bets, net) == chips + SumBets(bets, DOMAIN bets) - net

\* C35: chips_cents plus the sum of the active bets equals the starting chips
\* plus deposits minus withdrawals plus net_cents: every call other than
\* reset_stats changes chips + active bets - net_cents by the amount of a
\* successful deposit_cents, by minus the amount of a successful
\* withdraw_cents, and by nothing otherwise.
C35_LedgerConservation ==
    [][ (call'.op # "reset_stats") =>
          (Funds(chips_cents', active_bets', net_cents')
             - Funds(chips_cents, active_bets, net_cents)
           = IF call'.op = "deposit_cents" /\ call'.raised = "" THEN call'.arg
             ELSE IF call'.op = "withdraw_cents" /\ call'.raised = ""
                  THEN 0 - call'.arg
                  ELSE 0)
      ]_vars

\* C35, what the code keeps: the same, for every call but a settle_win that
\* raises TypeError for its payout_ratio after the bet is popped
C35_ConservationButTypeError ==
    [][ (call'.op # "reset_stats" /\ call'.raised # "TypeError") =>
          (Funds(chips_cents', active_bets', net_cents')
             - Funds(chips_cents, active_bets, net_cents)
           = IF call'.op = "deposit_cents" /\ call'.raised = "" THEN call'.arg
             ELSE IF call'.op = "withdraw_cents" /\ call'.raised = ""
                  THEN 0 - call'.arg
                  ELSE 0)
      ]_vars


\* C36: hands_played = wins + losses + pushes in every state, and hands_played
\* counts exactly the successful settlements since the last reset: a
\* settle_win, settle_blackjack, settle_push or settle_loss that returns adds
\* one, reset_stats sets it to zero, and every other call (a call that
\* raises, place_bet, cancel_bet, a deposit, a withdrawal) leaves it alone.
C36_StatsConsistent ==
    /\ hands_played = wins + losses + pushes
    /\ [][ /\ hands_played' = wins' + losses' + pushes'
           /\ hands_played' =
                IF call'.op = "reset_stats" THEN 0
                ELSE IF call'.op \in SettleOps /\ call'.raised = ""
                     THEN hands_played + 1
                     ELSE hands_played
         ]_vars

\* two bets placed, one settled and then the other cancelled: one hand played
C36_Witness ==
    /\ call.op = "cancel_bet"
    /\ call.raised = ""
    /\ hands_played = 1
    /\ closed_bets = {1, 2}

\* a settle_win that raised TypeError after popping the bet counted no hand
C36_FailedSettleWitness ==
    /\ call.op = "settle_win"
    /\ call.raised = "TypeError"
    /\ closed_bets = {1}
    /\ hands_played = 0


\* C37: place_bet(a) followed by cancel_bet of the returned id returns, restores
\* chips to their value before the bet, removes the bet from the active bets,
\* and leaves hands_played, wins, losses, pushes and net_cents unchanged.
C37_CancelRoundTrip ==
    [][ (/\ call.op = "place_bet"
         /\ call.raised = ""
         /\ call'.op = "cancel_bet"
         /\ call'.arg = call.ret)
        => (/\ call'.raised = ""
            /\ chips_cents' = call.before
            /\ call.ret \in DOMAIN active_bets
            /\ call.ret \notin DOMAIN active_bets'
            /\ UNCHANGED statVars)
      ]_vars

\* the only bet placed, of 2 cents from a balance of 2, has been cancelled
C37_Witness ==
    /\ call.op = "cancel_bet"
    /\ call.raised = ""
    /\ call.ret = 2
    /\ call.before = 0
    /\ chips_cents = 2
    /\ next_bet_id = 2
    /\ closed_bets = {1}
    /\ active_bets = <<>>


\* ------------------------------------------------------------------------
\* Claims about termination of a round (SpecFair)
\* ------------------------------------------------------------------------

\* the total of a hand with every ace counted as 1
HardTotal(cards) == SumValues(cards) - 10 * CountAces(cards)

\* a hit of the non-interactive player loop, or of the dealer loop
PlayerAutoHits == pc = "player" /\ ~interactive /\ player_hand' # player_hand
DealerHits == pc = "dealer" /\ dealer_hand' # dealer_hand

\* the non-interactive player loop, or the dealer loop, is left
PlayerAutoLeaves == pc = "player" /\ ~interactive /\ pc' # "player"
DealerLeaves == pc = "dealer" /\ pc' # "dealer"

\* every round begun with interactive=False reaches its result and cleanup
RoundTerminates == (pc = "deal" /\ ~interactive) ~> (pc = "idle" /\ result # "")

\* C39, as the code has it: every round played with interactive=False reaches a
\* result and cleanup, for every order of the shoe; every hit of the player
\* loop and of the dealer loop adds one card and strictly increases the total
\* of the hand with aces counted as 1, which is at most value(); value() is
\* below 16 (player) or 17 (dealer) before every hit and at least that when the
\* loop is left.
C39_RoundTerminates ==
    /\ RoundTerminates
    /\ [][ /\ PlayerAutoHits =>
                /\ value(player_hand) < 16
                /\ Len(player_hand') = Len(player_hand) + 1
                /\ HardTotal(player_hand') > HardTotal(player_hand)
                /\ HardTotal(player_hand') <= value(player_hand')
           /\ DealerHits =>
                /\ value(dealer_hand) < 17
                /\ Len(dealer_hand') = Len(dealer_hand) + 1
                /\ HardTotal(dealer_hand') > HardTotal(dealer_hand)
                /\ HardTotal(dealer_hand') <= value(dealer_hand')
           /\ PlayerAutoLeaves => value(player_hand') >= 16
           /\ DealerLeaves => value(dealer_hand') >= 17
         ]_vars

\* C39, as stated: every round played with interactive=False reaches a result
\* and cleanup, and every hit of the player loop and of the dealer loop
\* strictly increases the hand total value() until it is >= 16 (player) or
\* >= 17 (dealer).
C39_HitIncreasesValue ==
    /\ RoundTerminates
    /\ [][ /\ PlayerAutoHits => value(player_hand') > value(player_hand)
           /\ DealerHits => value(dealer_hand') > value(dealer_hand)
           /\ PlayerAutoLeaves => value(player_hand') >= 16
           /\ DealerLeaves => value(dealer_hand') >= 17
         ]_vars

\* a non-interactive round at its cleanup in which the player's third card
\* left value() where it was (A, A, K: 12 and 12) and a fourth was drawn
C39_Witness ==
    /\ pc = "cleanup"
    /\ ~interactive
    /\ result # ""
    /\ Len(player_hand) >= 4
    /\ value(SubSeq(player_hand, 1, 3)) = value(SubSeq(player_hand, 1, 2))
    /\ Len(dealer_hand) >= 3

=============================================================================
